---- MODULE Spec2Model ----
(***************************************************************************)
(* EU5-Modding-Mcp: the parsing-and-search core.                           *)
(*                                                                         *)
(* scripts/convert_data.py   parsers and the Store Builder                 *)
(* src/data_handler.py       DataHandler, the store the MCP tools query    *)
(* scripts/data_searcher.py  DataSearcher, the command-line search engine  *)
(* server.py, src/tools.py, src/resources.py  the start of the server and  *)
(*                           the tools and resources it registers          *)
(*                                                                         *)
(* A Python str is a sequence of one-character strings, a list is a        *)
(* sequence, a dict whose iteration order matters is a sequence of         *)
(* [key, value] pairs in insertion order, and a JSON object (a Record of   *)
(* the store) is a TLA+ record whose DOMAIN is the set of keys it has.     *)
(***************************************************************************)
EXTENDS Integers, Sequences, FiniteSets, TLC

VARIABLES files, handler, searcher, op, result

vars == <<files, handler, searcher, op, result>>

(***************************************************************************)
(* Bounds of the model.                                                    *)
(***************************************************************************)
\* limits range over -NegLimits .. MaxLimit
MaxLimit == 3
NegLimits == 1
\* each source contributes a prefix of at most MaxPerSource parsed entries
MaxPerSource == 2
\* a source of the build has at most MaxLines lines
MaxLines == 3
\* at most MaxCorrupt files of mcp-data are corrupt
MaxCorrupt == 2

(***************************************************************************)
(* Python str and list primitives.                                         *)
(***************************************************************************)
Min(a, b) == IF a <= b THEN a ELSE b
Max(a, b) == IF a >= b THEN a ELSE b

\* str.lower() on one character
LowerChar(c) ==
    CASE c = "A" -> "a" [] c = "B" -> "b" [] c = "C" -> "c" [] c = "D" -> "d"
      [] c = "E" -> "e" [] c = "F" -> "f" [] c = "G" -> "g" [] c = "H" -> "h"
      [] c = "I" -> "i" [] c = "J" -> "j" [] c = "K" -> "k" [] c = "L" -> "l"
      [] c = "M" -> "m" [] c = "N" -> "n" [] c = "O" -> "o" [] c = "P" -> "p"
      [] c = "Q" -> "q" [] c = "R" -> "r" [] c = "S" -> "s" [] c = "T" -> "t"
      [] c = "U" -> "u" [] c = "V" -> "v" [] c = "W" -> "w" [] c = "X" -> "x"
      [] c = "Y" -> "y" [] c = "Z" -> "z"
      [] OTHER -> c

\* str.lower()
Lower(s) == [i \in 1..Len(s) |-> LowerChar(s[i])]

\* SliceTo with the cut one element late
SliceTo_OffByOne(s, n) ==
    IF n >= 0 THEN SubSeq(s, 1, Min(n + 1, Len(s)))
    ELSE SubSeq(s, 1, Max(Len(s) + n, 0))

\* s[:n], the Python slice: a negative n counts from the end
SliceTo(s, n) ==
    IF n >= 0 THEN SubSeq(s, 1, Min(n, Len(s)))
    ELSE SubSeq(s, 1, Max(Len(s) + n, 0))

\* x in s, for a list s
InList(x, s) == \E i \in 1..Len(s) : s[i] = x

\* sub in s, for two str
Contains(s, sub) ==
    \E i \in 0..(Len(s) - Len(sub)) : SubSeq(s, i + 1, i + Len(sub)) = sub

\* s.startswith(p)
StartsWith(s, p) == Len(p) <= Len(s) /\ SubSeq(s, 1, Len(p)) = p

(***************************************************************************)
(* difflib.SequenceMatcher(None, a, b).ratio(), as DataHandler and         *)
(* DataSearcher call it: no junk predicate, and the automatic junk         *)
(* heuristic needs a second string of 200 characters or more.              *)
(***************************************************************************)
\* length of the common run of a[i..ahi-1] and b[j..bhi-1] starting at (i, j)
RECURSIVE RunLen(_, _, _, _, _, _)
RunLen(a, b, i, j, ahi, bhi) ==
    IF i < ahi /\ j < bhi /\ a[i] = b[j]
    THEN 1 + RunLen(a, b, i + 1, j + 1, ahi, bhi)
    ELSE 0

\* find_longest_match(alo, ahi, blo, bhi): the longest block, the earliest in a
\* among the longest, the earliest in b among those; <<alo, blo, 0>> if none.
\* Positions are 1-based, lo inclusive, hi exclusive.
FindLongestMatch(a, b, alo, ahi, blo, bhi) ==
    LET cand == {<<i, j>> : i \in alo..(ahi - 1), j \in blo..(bhi - 1)}
        size(p) == RunLen(a, b, p[1], p[2], ahi, bhi)
        best == IF cand = {} THEN 0
                ELSE CHOOSE k \in {size(p) : p \in cand} :
                         \A p \in cand : size(p) <= k
    IN  IF best = 0 THEN <<alo, blo, 0>>
        ELSE LET top == {p \in cand : size(p) = best}
                 bi == CHOOSE i \in {p[1] : p \in top} :
                           \A p \in top : i <= p[1]
                 bj == CHOOSE j \in {p[2] : p \in {q \in top : q[1] = bi}} :
                           \A p \in {q \in top : q[1] = bi} : j <= p[2]
             IN  <<bi, bj, best>>

\* the total size of get_matching_blocks() over a[alo..ahi-1], b[blo..bhi-1]
RECURSIVE MatchedChars(_, _, _, _, _, _)
MatchedChars(a, b, alo, ahi, blo, bhi) ==
    LET m == FindLongestMatch(a, b, alo, ahi, blo, bhi)
        i == m[1]
        j == m[2]
        k == m[3]
    IN  IF k = 0 THEN 0
        ELSE k
             + (IF alo < i /\ blo < j
                THEN MatchedChars(a, b, alo, i, blo, j) ELSE 0)
             + (IF i + k < ahi /\ j + k < bhi
                THEN MatchedChars(a, b, i + k, ahi, j + k, bhi) ELSE 0)

\* ratio(): 2.0 * matches / length, 1.0 for two empty strings; the float is
\* kept as the exact fraction num / den
Ratio(a, b) ==
    LET length == Len(a) + Len(b)
    IN  IF length > 0
        THEN [num |-> 2 * MatchedChars(a, b, 1, Len(a) + 1, 1, Len(b) + 1),
              den |-> length]
        ELSE [num |-> 1, den |-> 1]

\* comparisons of two such floats, and the literal 0.6 = 3/5
FloatLess(x, y) == x.num * y.den < y.num * x.den
FloatEq(x, y) == x.num * y.den = y.num * x.den
\* the threshold test with >= for >
AboveThreshold_Inclusive(x) == 5 * x.num >= 3 * x.den

AboveThreshold(x) == 5 * x.num > 3 * x.den

(***************************************************************************)
(* The str values the model uses, as sequences of characters.              *)
(***************************************************************************)
s_gold == <<"g", "o", "l", "d">>
s_Gold == <<"G", "o", "l", "d">>
s_golf == <<"g", "o", "l", "f">>
s_bold == <<"b", "o", "l", "d">>
s_bolt == <<"b", "o", "l", "t">>
s_golfer == <<"g", "o", "l", "f", "e", "r">>
s_bolder == <<"b", "o", "l", "d", "e", "r">>
s_tax == <<"t", "a", "x">>
s_Tax == <<"T", "a", "x">>
s_gole == <<"g", "o", "l", "e">>
s_golx == <<"g", "o", "l", "x">>
s_GOLD == <<"G", "O", "L", "D">>
s_zz == <<"z", "z">>
s_date == <<"d", "a", "t", "e">>
s_gild == <<"g", "i", "l", "d">>
s_told == <<"t", "o", "l", "d">>
s_army == <<"a", "r", "m", "y">>
s_colt == <<"c", "o", "l", "t">>
s_gol == <<"g", "o", "l">>
s_TAX == <<"T", "A", "X">>
s_int == <<"i", "n", "t">>
s_Int == <<"I", "n", "t">>
s_x == <<"x">>
s_country == <<"c", "o", "u", "n", "t", "r", "y">>
s_Country == <<"C", "o", "u", "n", "t", "r", "y">>
s_province == <<"p", "r", "o", "v", "i", "n", "c", "e">>
s_Province == <<"P", "r", "o", "v", "i", "n", "c", "e">>
s_military == <<"m", "i", "l", "i", "t", "a", "r", "y">>
s_common == <<"c", "o", "m", "m", "o", "n">>
s_Common == <<"C", "o", "m", "m", "o", "n">>
s_gui == <<"g", "u", "i">>
s_internalclausewitzgui == <<"i", "n", "t", "e", "r", "n", "a", "l", "c", "l", "a", "u", "s", "e", "w", "i", "t", "z", "g", "u", "i">>
s_script == <<"s", "c", "r", "i", "p", "t">>
s_uncategorized == <<"u", "n", "c", "a", "t", "e", "g", "o", "r", "i", "z", "e", "d">>
s_data_types_ == <<"d", "a", "t", "a", "_", "t", "y", "p", "e", "s", "_">>
s_data_types_common == <<"d", "a", "t", "a", "_", "t", "y", "p", "e", "s", "_", "c", "o", "m", "m", "o", "n">>
s_data_types_gui == <<"d", "a", "t", "a", "_", "t", "y", "p", "e", "s", "_", "g", "u", "i">>
s_effects == <<"e", "f", "f", "e", "c", "t", "s">>
s_Effects == <<"E", "f", "f", "e", "c", "t", "s">>
s_triggers == <<"t", "r", "i", "g", "g", "e", "r", "s">>
s_event_targets == <<"e", "v", "e", "n", "t", "_", "t", "a", "r", "g", "e", "t", "s">>
s_on_actions == <<"o", "n", "_", "a", "c", "t", "i", "o", "n", "s">>
s_modifiers == <<"m", "o", "d", "i", "f", "i", "e", "r", "s">>
s_custom_localization == <<"c", "u", "s", "t", "o", "m", "_", "l", "o", "c", "a", "l", "i", "z", "a", "t", "i", "o", "n">>
s_index == <<"i", "n", "d", "e", "x">>
s_all_data == <<"a", "l", "l", "_", "d", "a", "t", "a">>
s_grants_gold == <<"g", "r", "a", "n", "t", "s", " ", "g", "o", "l", "d">>
s_needs_tax == <<"n", "e", "e", "d", "s", " ", "t", "a", "x">>

(***************************************************************************)
(* dict, with its insertion order: a sequence of [key, value] pairs.       *)
(***************************************************************************)
\* k in d
HasKey(d, k) == \E i \in 1..Len(d) : d[i].key = k

\* d[k], for a key d has
Get(d, k) == d[CHOOSE i \in 1..Len(d) : d[i].key = k].value

\* d.get(k, default)
GetOr(d, k, default) == IF HasKey(d, k) THEN Get(d, k) ELSE default

\* d[k] = v: a new key goes last, an old key keeps its place
DictSet(d, k, v) ==
    IF HasKey(d, k)
    THEN [i \in 1..Len(d) |-> IF d[i].key = k THEN [key |-> k, value |-> v] ELSE d[i]]
    ELSE Append(d, [key |-> k, value |-> v])

\* item.get(field, default) on a JSON object
Field(item, f, default) == IF f \in DOMAIN item THEN item[f] ELSE default

\* the concatenation of a list of lists
RECURSIVE Flatten(_)
Flatten(ss) == IF ss = <<>> THEN <<>> ELSE Head(ss) \o Flatten(Tail(ss))

(***************************************************************************)
(* The entries the three parsers of convert_data.py build.                 *)
(***************************************************************************)
\* parse_data_type_file: entry
DataTypeEntry(name, description, definition_type, return_type, args) ==
    [name |-> name, description |-> description,
     definition_type |-> definition_type, return_type |-> return_type,
     args |-> args, type |-> "data_type"]

\* parse_markdown_log_file: entry; the type is "effect" for every log file
MarkdownEntry(name, description, supported_scopes, supported_targets) ==
    [name |-> name, description |-> description,
     supported_scopes |-> supported_scopes,
     supported_targets |-> supported_targets, type |-> "effect"]

\* parse_modifier_log_file: entry
ModifierEntry(name, categories) ==
    [name |-> name, description |-> <<>>, categories |-> categories,
     type |-> "modifier"]

(***************************************************************************)
(* The str and re primitives of the parsers.                               *)
(***************************************************************************)
\* the characters str.strip() removes and \s matches
Whitespace == {" ", "\t", "\n", "\r"}
IsSpace(c) == c \in Whitespace

\* the characters \w matches
WordChars ==
    {"a", "b", "c", "d", "e", "f", "g", "h", "i", "j", "k", "l", "m", "n", "o",
     "p", "q", "r", "s", "t", "u", "v", "w", "x", "y", "z",
     "A", "B", "C", "D", "E", "F", "G", "H", "I", "J", "K", "L", "M", "N", "O",
     "P", "Q", "R", "S", "T", "U", "V", "W", "X", "Y", "Z",
     "0", "1", "2", "3", "4", "5", "6", "7", "8", "9", "_"}
IsWord(c) == c \in WordChars

SetMin(S) == CHOOSE x \in S : \A y \in S : x <= y
SetMax(S) == CHOOSE x \in S : \A y \in S : x >= y

\* s[i:], 1-based
From(s, i) == SubSeq(s, i, Len(s))

\* str.lstrip(), str.rstrip(), str.strip()
LStrip(s) ==
    LET keep == {i \in 1..Len(s) : ~IsSpace(s[i])}
    IN  IF keep = {} THEN <<>> ELSE From(s, SetMin(keep))

RStrip(s) ==
    LET keep == {i \in 1..Len(s) : ~IsSpace(s[i])}
    IN  IF keep = {} THEN <<>> ELSE SubSeq(s, 1, SetMax(keep))

Strip(s) == LStrip(RStrip(s))

\* the start of the first occurrence of sub in s, 0 if there is none
Find(s, sub) ==
    LET hits == {i \in 1..(Len(s) - Len(sub) + 1) :
                     SubSeq(s, i, i + Len(sub) - 1) = sub}
    IN  IF hits = {} THEN 0 ELSE SetMin(hits)

\* s.split(sep), for a non-empty sep
RECURSIVE Split(_, _)
Split(s, sep) ==
    LET i == Find(s, sep)
    IN  IF i = 0 THEN <<s>>
        ELSE <<SubSeq(s, 1, i - 1)>> \o Split(From(s, i + Len(sep)), sep)

\* sep.join(parts)
RECURSIVE Join(_, _)
Join(parts, sep) ==
    IF parts = <<>> THEN <<>>
    ELSE IF Len(parts) = 1 THEN Head(parts)
    ELSE Head(parts) \o sep \o Join(Tail(parts), sep)

\* s.replace(old, ''): every occurrence of old is removed, left to right
Remove(s, old) == Flatten(Split(s, old))

\* [x.strip() for x in s.split(',')]
SplitTrim(s) ==
    LET parts == Split(s, <<",">>)
    IN  [i \in 1..Len(parts) |-> Strip(parts[i])]

NonEmpty(s) == s # <<>>

\* [x.strip() for x in s.split(',') if x.strip()]
SplitTrimNonEmpty(s) == SelectSeq(SplitTrim(s), NonEmpty)

\* the last element of lines that starts with label, <<>> if there is none:
\* what a loop that assigns on every such line leaves
LastWith(lines, label) ==
    LET hits == {i \in 1..Len(lines) : StartsWith(lines[i], label)}
    IN  IF hits = {} THEN <<>> ELSE <<lines[SetMax(hits)]>>

(***************************************************************************)
(* The literals of the three source conventions.                           *)
(***************************************************************************)
NL == <<"\n">>
s_hashes == <<"#", "#">>
s_stars == <<"*", "*">>
RuleLine ==
    <<"-", "-", "-", "-", "-", "-", "-", "-", "-", "-", "-", "-", "-", "-",
      "-", "-", "-", "-", "-", "-", "-", "-", "-">>
l_Description ==
    <<"D", "e", "s", "c", "r", "i", "p", "t", "i", "o", "n", ":">>
l_Definition_type ==
    <<"D", "e", "f", "i", "n", "i", "t", "i", "o", "n", " ", "t", "y", "p",
      "e", ":">>
l_Return_type ==
    <<"R", "e", "t", "u", "r", "n", " ", "t", "y", "p", "e", ":">>
l_Supported_Scopes ==
    <<"*", "*", "S", "u", "p", "p", "o", "r", "t", "e", "d", " ", "S", "c",
      "o", "p", "e", "s", "*", "*", ":">>
l_Supported_Targets ==
    <<"*", "*", "S", "u", "p", "p", "o", "r", "t", "e", "d", " ", "T", "a",
      "r", "g", "e", "t", "s", "*", "*", ":">>
s_Printing == <<"P", "r", "i", "n", "t", "i", "n", "g">>
s_Tag == <<"T", "a", "g", ":">>
s_Categories == <<"C", "a", "t", "e", "g", "o", "r", "i", "e", "s", ":">>
s_All == <<"A", "l", "l">>

(***************************************************************************)
(* parse_data_type_file: blocks between rule lines.                        *)
(***************************************************************************)
\* re.match(r'(\w+)\(\s*(.*?)\s*\)', first_line): <<>> if there is no match,
\* else <<[name, args_str]>>.  \w+ is the run of word characters at the start,
\* which "(" must follow; the lazy group ends where only whitespace is left
\* before the first ")".
MatchDeclaration(first_line) ==
    LET nonword == {i \in 1..Len(first_line) : ~IsWord(first_line[i])}
        open == IF nonword = {} THEN 0 ELSE SetMin(nonword)
        closes == {i \in (open + 1)..Len(first_line) : first_line[i] = ")"}
    IN  IF open <= 1 \/ first_line[open] # "(" \/ closes = {} THEN <<>>
        ELSE <<[name |-> SubSeq(first_line, 1, open - 1),
                args_str |-> Strip(SubSeq(first_line, open + 1,
                                          SetMin(closes) - 1))]>>

\* the value a label's lines leave: line.replace(label, '').strip() of the
\* last line that starts with the label, '' if there is none
Labelled(lines, label) ==
    LET last == LastWith(lines, label)
    IN  IF last = <<>> THEN <<>> ELSE Strip(Remove(last[1], label))

\* the entry of one stripped, non-empty item
DataTypeItem(item) ==
    LET lines == Split(item, NL)
        first_line == Strip(lines[1])
        match == MatchDeclaration(first_line)
        rest == [i \in 1..(Len(lines) - 1) |-> Strip(lines[i + 1])]
    IN  DataTypeEntry(
            IF match # <<>> THEN match[1].name ELSE first_line,
            Labelled(rest, l_Description),
            Labelled(rest, l_Definition_type),
            Labelled(rest, l_Return_type),
            IF match # <<>> /\ match[1].args_str # <<>>
            THEN SplitTrim(match[1].args_str) ELSE <<>>)

HasName(entry) == entry.name # <<>>

parse_data_type_file(content) ==
    LET items == Split(content, RuleLine \o NL)
        stripped == SelectSeq([i \in 1..Len(items) |-> Strip(items[i])], NonEmpty)
    IN  SelectSeq([i \in 1..Len(stripped) |-> DataTypeItem(stripped[i])], HasName)

(***************************************************************************)
(* parse_markdown_log_file: blocks under ## headings.                      *)
(***************************************************************************)
\* re.split(r'\n##\s+', content)
RECURSIVE SplitHeadings(_)
SplitHeadings(content) ==
    LET hits == {i \in 1..(Len(content) - 3) :
                     /\ content[i] = "\n"
                     /\ content[i + 1] = "#"
                     /\ content[i + 2] = "#"
                     /\ IsSpace(content[i + 3])}
    IN  IF hits = {} THEN <<content>>
        ELSE LET i == SetMin(hits)
                 after == {j \in (i + 3)..Len(content) : ~IsSpace(content[j])}
                 next == IF after = {} THEN Len(content) + 1 ELSE SetMin(after)
             IN  <<SubSeq(content, 1, i - 1)>> \o SplitHeadings(From(content, next))

\* a line that goes to description_lines
IsDescriptionLine(line) ==
    /\ ~StartsWith(line, l_Supported_Scopes)
    /\ ~StartsWith(line, l_Supported_Targets)
    /\ line # <<>>
    /\ ~StartsWith(line, s_stars)

\* the list a label's lines leave
LabelledList(lines, label) ==
    LET last == LastWith(lines, label)
    IN  IF last = <<>> THEN <<>>
        ELSE SplitTrimNonEmpty(Strip(Remove(last[1], label)))

\* the entry of one item whose first line has a name
MarkdownItem(item) ==
    LET lines == Split(item, NL)
        rest == [i \in 1..(Len(lines) - 1) |-> RStrip(lines[i + 1])]
    IN  MarkdownEntry(
            Strip(lines[1]),
            Strip(Join(SelectSeq(rest, IsDescriptionLine), NL)),
            LabelledList(rest, l_Supported_Scopes),
            LabelledList(rest, l_Supported_Targets))

HasHeadingName(item) == Strip(item) # <<>> /\ Strip(Split(item, NL)[1]) # <<>>

parse_markdown_log_file(content) ==
    IF ~Contains(content, s_hashes) THEN <<>>
    ELSE LET items == SelectSeq(SplitHeadings(content), HasHeadingName)
         IN  [i \in 1..Len(items) |-> MarkdownItem(items[i])]

(***************************************************************************)
(* parse_modifier_log_file: one "Tag: ..., Categories: ..." per line.      *)
(***************************************************************************)
\* re.match(r'Tag:\s*([^,]+),\s*Categories:\s*(.*)', line): <<>> if there is
\* no match, else <<[name, categories_str]>>, both stripped.  The first group
\* cannot cross a comma, so it ends at the first comma after "Tag:", and it
\* needs one character, which \s* gives back when only whitespace is there.
MatchTag(line) ==
    LET rest == From(line, Len(s_Tag) + 1)
        comma == Find(rest, <<",">>)
        after == LStrip(From(rest, comma + 1))
    IN  IF ~StartsWith(line, s_Tag) \/ comma <= 1
           \/ ~StartsWith(after, s_Categories)
        THEN <<>>
        ELSE <<[name |-> Strip(SubSeq(rest, 1, comma - 1)),
                categories_str |-> Strip(From(after, Len(s_Categories) + 1))]>>

NotAll(c) == c # s_All

\* the line's entry with the sentinel All kept among the categories
ModifierLine_KeepAll(raw) ==
    LET line == Strip(raw)
        match == MatchTag(line)
    IN  IF line = <<>> \/ StartsWith(line, s_Printing) \/ match = <<>> THEN <<>>
        ELSE <<ModifierEntry(match[1].name,
                             SplitTrimNonEmpty(match[1].categories_str))>>

\* the entries of one line of the file
ModifierLine(raw) ==
    LET line == Strip(raw)
        match == MatchTag(line)
    IN  IF line = <<>> \/ StartsWith(line, s_Printing) \/ match = <<>> THEN <<>>
        ELSE <<ModifierEntry(match[1].name,
                             SelectSeq(SplitTrimNonEmpty(match[1].categories_str),
                                       NotAll))>>

parse_modifier_log_file(content) ==
    LET lines == Split(content, NL)
    IN  Flatten([i \in 1..Len(lines) |-> ModifierLine(lines[i])])

\* parse_log_file: the parser is chosen by the file's stem
parse_log_file(file_name, content) ==
    IF file_name = s_modifiers THEN parse_modifier_log_file(content)
    ELSE parse_markdown_log_file(content)

(***************************************************************************)
(* convert_all_data: the Store Builder.                                    *)
(***************************************************************************)
\* log_files, by stem
log_files ==
    <<s_effects, s_triggers, s_event_targets, s_on_actions, s_modifiers,
      s_custom_localization>>

\* indexed_entry of one entry of a category
IndexedEntry(category, entry) ==
    LET base == [category |-> category, name |-> entry.name,
                 description |-> Field(entry, "description", <<>>),
                 type |-> Field(entry, "type", "unknown")]
        t == Field(entry, "type", "none")
    IN  IF t = "data_type"
        THEN [category |-> base.category, name |-> base.name,
              description |-> base.description, type |-> base.type,
              definition_type |-> Field(entry, "definition_type", <<>>),
              return_type |-> Field(entry, "return_type", <<>>),
              args |-> Field(entry, "args", <<>>)]
        ELSE IF t \in {"effect", "trigger"}
        THEN [category |-> base.category, name |-> base.name,
              description |-> base.description, type |-> base.type,
              supported_scopes |-> Field(entry, "supported_scopes", <<>>),
              supported_targets |-> Field(entry, "supported_targets", <<>>)]
        ELSE IF t = "event_target"
        THEN [category |-> base.category, name |-> base.name,
              description |-> base.description, type |-> base.type,
              input_scopes |-> Field(entry, "input_scopes", <<>>),
              output_scopes |-> Field(entry, "output_scopes", <<>>)]
        ELSE IF t = "modifier"
        THEN [category |-> base.category, name |-> base.name,
              description |-> base.description, type |-> base.type,
              categories |-> Field(entry, "categories", <<>>)]
        ELSE base

\* entry_copy = entry.copy(); entry_copy['category'] = category
WithCategory(entry, category) ==
    [f \in (DOMAIN entry) \cup {"category"} |->
        IF f = "category" THEN category ELSE entry[f]]

\* the first loop: all_data after the data_types/*.txt files, in sorted order
RECURSIVE AddTxtFiles(_, _)
AddTxtFiles(all, txt) ==
    IF txt = <<>> THEN all
    ELSE AddTxtFiles(DictSet(all, Head(txt).key, Head(txt).value), Tail(txt))

\* the second loop: a log file that is absent, or parses to no entry, adds nothing
RECURSIVE AddLogFiles(_, _, _)
AddLogFiles(all, logs, names) ==
    IF names = <<>> THEN all
    ELSE LET stem == Head(names)
             entries == GetOr(logs, stem, <<>>)
         IN  AddLogFiles(IF HasKey(logs, stem) /\ entries # <<>>
                         THEN DictSet(all, stem, entries) ELSE all,
                         logs, Tail(names))

\* the index loop with the key's list replaced by the new entry
RECURSIVE IndexEntries_Overwrite(_, _, _)
IndexEntries_Overwrite(idx, category, entries) ==
    IF entries = <<>> THEN idx
    ELSE IndexEntries_Overwrite(
             DictSet(idx, Lower(Head(entries).name),
                     <<IndexedEntry(category, Head(entries))>>),
             category, Tail(entries))

\* index_by_name: every entry appended under its lowercased name
RECURSIVE IndexEntries(_, _, _)
IndexEntries(idx, category, entries) ==
    IF entries = <<>> THEN idx
    ELSE LET name == Lower(Head(entries).name)
             old == GetOr(idx, name, <<>>)
         IN  IndexEntries(
                 DictSet(idx, name,
                         Append(old, IndexedEntry(category, Head(entries)))),
                 category, Tail(entries))

RECURSIVE IndexByName(_, _)
IndexByName(idx, all) ==
    IF all = <<>> THEN idx
    ELSE IndexByName(IndexEntries(idx, Head(all).key, Head(all).value), Tail(all))

\* all_entries
AllEntries(all) ==
    Flatten([i \in 1..Len(all) |->
                [j \in 1..Len(all[i].value) |->
                    WithCategory(all[i].value[j], all[i].key)]])

\* one <category>.json per category
RECURSIVE CategoryFiles(_, _)
CategoryFiles(out, all) ==
    IF all = <<>> THEN out
    ELSE CategoryFiles(DictSet(out, Head(all).key, Head(all).value), Tail(all))

\* the sum of the lengths of the values of a dict
RECURSIVE SumLen(_)
SumLen(d) == IF d = <<>> THEN 0 ELSE Len(Head(d).value) + SumLen(Tail(d))

\* total_count: every txt file adds the number of its entries, and so does
\* every log file of log_files that exists
TotalCount(txt, logs) == SumLen(txt) + SumLen(logs)

\* convert_all_data: the output directory, file stem -> content, from the
\* parsed data_types/*.txt files (sorted by stem) and the parsed log files
ConvertAllData(txt, logs) ==
    LET all_data == AddLogFiles(AddTxtFiles(<<>>, txt), logs, log_files)
        withIndex == DictSet(CategoryFiles(<<>>, all_data), s_index,
                             IndexByName(<<>>, all_data))
    IN  DictSet(withIndex, s_all_data, AllEntries(all_data))

(***************************************************************************)
(* DataHandler (src/data_handler.py).                                      *)
(***************************************************************************)
\* the categories _load_all_data looks for, as data_types_<category>.json
data_type_categories ==
    <<s_common, s_gui, s_internalclausewitzgui, s_script, s_uncategorized>>

RECURSIVE LoadDataTypes(_, _, _)
LoadDataTypes(d, fs, cats) ==
    IF cats = <<>> THEN d
    ELSE LET f == s_data_types_ \o Head(cats)
         IN  LoadDataTypes(IF HasKey(fs, f) THEN DictSet(d, Head(cats), Get(fs, f))
                           ELSE d,
                           fs, Tail(cats))

\* __init__ and _load_all_data: every file that exists is loaded, a missing
\* one leaves the empty default
LoadAllData(fs) ==
    [index |-> GetOr(fs, s_index, <<>>),
     all_data |-> GetOr(fs, s_all_data, <<>>),
     modifiers |-> GetOr(fs, s_modifiers, <<>>),
     effects |-> GetOr(fs, s_effects, <<>>),
     triggers |-> GetOr(fs, s_triggers, <<>>),
     event_targets |-> GetOr(fs, s_event_targets, <<>>),
     data_types_by_category |-> LoadDataTypes(<<>>, fs, data_type_categories)]

\* entry_copy = entry.copy(); entry_copy['similarity'] = similarity
WithSimilarity(entry, similarity) ==
    [f \in (DOMAIN entry) \cup {"similarity"} |->
        IF f = "similarity" THEN similarity ELSE entry[f]]

\* SequenceMatcher(None, name_lower, key).ratio() for each key of the index,
\* in the index's iteration order
Similarities(index, name_lower) ==
    [i \in 1..Len(index) |-> Ratio(name_lower, index[i].key)]

\* the fuzzy loop: for each key above the threshold, in the index's iteration
\* order, its entries with the similarity attached
FuzzyCandidates(index, sims) ==
    Flatten([i \in 1..Len(index) |->
        IF AboveThreshold(sims[i])
        THEN [j \in 1..Len(index[i].value) |->
                 WithSimilarity(index[i].value[j], sims[i])]
        ELSE <<>>])

\* results.sort(key=lambda x: x['similarity'], reverse=True): a stable sort,
\* equal keys keep their order
RECURSIVE InsertBySimilarity(_, _)
InsertBySimilarity(sorted, x) ==
    IF sorted = <<>> THEN <<x>>
    ELSE IF FloatLess(Head(sorted).similarity, x.similarity)
    THEN <<x>> \o sorted
    ELSE <<Head(sorted)>> \o InsertBySimilarity(Tail(sorted), x)

RECURSIVE SortBySimilarityFrom(_, _)
SortBySimilarityFrom(sorted, rest) ==
    IF rest = <<>> THEN sorted
    ELSE SortBySimilarityFrom(InsertBySimilarity(sorted, Head(rest)), Tail(rest))

SortBySimilarity(results) == SortBySimilarityFrom(<<>>, results)

\* the index after a search_by_name that writes the similarity into the
\* entries of the index, without the copy
HandlerIndexAfterSearch_InPlace(h, name, fuzzy) ==
    IF HasKey(h.index, Lower(name)) \/ ~fuzzy THEN h.index
    ELSE [i \in 1..Len(h.index) |->
             IF AboveThreshold(Ratio(Lower(name), h.index[i].key))
             THEN [key |-> h.index[i].key,
                   value |-> [j \in 1..Len(h.index[i].value) |->
                                 WithSimilarity(h.index[i].value[j],
                                                Ratio(Lower(name), h.index[i].key))]]
             ELSE h.index[i]]

\* self.index after search_by_name: the fuzzy loop writes the similarity to
\* entry.copy(), the exact path writes nothing
HandlerIndexAfterSearch(h, name, fuzzy) == h.index

\* search_by_name that takes the fuzzy path whenever fuzzy is set
HandlerSearchByName_FuzzyFirst(h, name, fuzzy, limit) ==
    IF fuzzy
    THEN SliceTo(SortBySimilarity(
                     FuzzyCandidates(h.index, Similarities(h.index, Lower(name)))),
                 limit)
    ELSE IF HasKey(h.index, Lower(name))
    THEN SliceTo(Get(h.index, Lower(name)), limit)
    ELSE <<>>

\* search_by_name that attaches a similarity of 1.0 on the exact path
HandlerSearchByName_AttachOnExact(h, name, fuzzy, limit) ==
    IF HasKey(h.index, Lower(name))
    THEN SliceTo([i \in 1..Len(Get(h.index, Lower(name))) |->
                     WithSimilarity(Get(h.index, Lower(name))[i],
                                    [num |-> 1, den |-> 1])],
                 limit)
    ELSE IF ~fuzzy THEN <<>>
    ELSE SliceTo(SortBySimilarity(
                     FuzzyCandidates(h.index, Similarities(h.index, Lower(name)))),
                 limit)

\* DataHandler.search_by_name
HandlerSearchByName(h, name, fuzzy, limit) ==
    LET name_lower == Lower(name)
    IN  IF HasKey(h.index, name_lower)
        THEN SliceTo(Get(h.index, name_lower), limit)
        ELSE IF ~fuzzy THEN <<>>
        ELSE SliceTo(SortBySimilarity(
                         FuzzyCandidates(h.index, Similarities(h.index, name_lower))),
                     limit)

\* the loop of the free-text searches with the description left out
SearchList_NameOnly(list, query, limit) ==
    LET hit(item) == Contains(Lower(Field(item, "name", <<>>)), Lower(query))
    IN  SliceTo(SelectSeq(list, hit), limit)

\* the loop of search_modifiers, search_effects, search_triggers and
\* search_event_targets over the list of that kind
SearchList(list, query, limit) ==
    LET query_lower == Lower(query)
        hit(item) == \/ Contains(Lower(Field(item, "name", <<>>)), query_lower)
                     \/ Contains(Lower(Field(item, "description", <<>>)), query_lower)
    IN  SliceTo(SelectSeq(list, hit), limit)

search_modifiers(h, query, limit) == SearchList(h.modifiers, query, limit)
search_effects(h, query, limit) == SearchList(h.effects, query, limit)
search_triggers(h, query, limit) == SearchList(h.triggers, query, limit)
search_event_targets(h, query, limit) == SearchList(h.event_targets, query, limit)

\* DataHandler.get_data_types_by_category
get_data_types_by_category(h, category) ==
    GetOr(h.data_types_by_category, category, <<>>)

\* DataHandler.get_data_by_type
get_data_by_type(h, data_type, limit) ==
    LET hit(item) == Field(item, "type", "none") = data_type
    IN  SliceTo(SelectSeq(h.all_data, hit), limit)

\* DataHandler.get_data_by_scope
get_data_by_scope(h, scope, limit) ==
    LET hit(item) == InList(scope, Field(item, "scopes", <<>>))
    IN  SliceTo(SelectSeq(h.all_data, hit), limit)

(***************************************************************************)
(* DataSearcher (scripts/data_searcher.py).                                *)
(***************************************************************************)
\* _load_data
LoadData(fs) ==
    [index |-> GetOr(fs, s_index, <<>>),
     all_data |-> GetOr(fs, s_all_data, <<>>)]

\* return results[:20]
FuzzyCap == 20

\* the fuzzy loop of DataSearcher.search_by_name writes the similarity into
\* the entries of the index themselves: the index after the loop
SearcherIndexAfterFuzzy(index, sims) ==
    [i \in 1..Len(index) |->
        IF AboveThreshold(sims[i])
        THEN [key |-> index[i].key,
              value |-> [j \in 1..Len(index[i].value) |->
                            WithSimilarity(index[i].value[j], sims[i])]]
        ELSE index[i]]

\* the fuzzy path of DataSearcher.search_by_name
SearcherFuzzy(index, sims) ==
    [value |-> SliceTo(SortBySimilarity(FuzzyCandidates(index, sims)), FuzzyCap),
     index |-> SearcherIndexAfterFuzzy(index, sims)]

\* DataSearcher.search_by_name: [value, index], the list returned and the
\* index the call leaves behind
SearcherSearchByName(sr, name, fuzzy) ==
    IF HasKey(sr.index, Lower(name))
    THEN [value |-> Get(sr.index, Lower(name)), index |-> sr.index]
    ELSE IF ~fuzzy THEN [value |-> <<>>, index |-> sr.index]
    ELSE SearcherFuzzy(sr.index, Similarities(sr.index, Lower(name)))

\* re.compile(pattern, re.IGNORECASE) succeeds: over literals, ^, $ and
\* parentheses, a pattern compiles unless a parenthesis is unbalanced
RECURSIVE Balanced(_, _)
Balanced(pattern, depth) ==
    IF pattern = <<>> THEN depth = 0
    ELSE IF Head(pattern) = "(" THEN Balanced(Tail(pattern), depth + 1)
    ELSE IF Head(pattern) = ")"
    THEN depth > 0 /\ Balanced(Tail(pattern), depth - 1)
    ELSE Balanced(Tail(pattern), depth)

Compiles(pattern) == Balanced(pattern, 0)

\* the compiled pattern matches s from position pos (0-based) on; a group only
\* captures, ^ holds at the start, $ at the end or before a final newline, a
\* literal matches its character in either case
RECURSIVE MatchAt(_, _, _)
MatchAt(pattern, s, pos) ==
    IF pattern = <<>> THEN TRUE
    ELSE LET c == Head(pattern)
         IN  IF c \in {"(", ")"} THEN MatchAt(Tail(pattern), s, pos)
             ELSE IF c = "^" THEN pos = 0 /\ MatchAt(Tail(pattern), s, pos)
             ELSE IF c = "$"
             THEN /\ \/ pos = Len(s)
                     \/ pos = Len(s) - 1 /\ s[Len(s)] = "\n"
                  /\ MatchAt(Tail(pattern), s, pos)
             ELSE /\ pos < Len(s)
                  /\ LowerChar(s[pos + 1]) = LowerChar(c)
                  /\ MatchAt(Tail(pattern), s, pos + 1)

\* regex.search(s)
RegexSearch(pattern, s) == \E pos \in 0..Len(s) : MatchAt(pattern, s, pos)

\* search_by_regex without the except branch: the pattern is used as it is
search_by_regex_NoCompileCheck(sr, pattern) ==
    LET hit(entry) == RegexSearch(pattern, entry.name)
    IN  SelectSeq(sr.all_data, hit)

\* DataSearcher.search_by_regex
search_by_regex(sr, pattern) ==
    IF ~Compiles(pattern) THEN <<>>
    ELSE LET hit(entry) == RegexSearch(pattern, entry.name)
         IN  SelectSeq(sr.all_data, hit)

\* DataSearcher.search_by_type
search_by_type(sr, return_type) ==
    LET hit(e) == Lower(Field(e, "return_type", <<>>)) = Lower(return_type)
    IN  SelectSeq(sr.all_data, hit)

\* DataSearcher.search_by_category
search_by_category(sr, category) ==
    LET hit(e) == Lower(e.category) = Lower(category)
    IN  SelectSeq(sr.all_data, hit)

\* DataSearcher.search_by_description
search_by_description(sr, keyword) ==
    LET hit(e) == Contains(Lower(e.description), Lower(keyword))
    IN  SelectSeq(sr.all_data, hit)

\* the four filter steps of advanced_search, each applied only when its
\* keyword is given
AfterName(results, kwargs, name_results) ==
    LET inNames(e) == \E i \in 1..Len(name_results) : name_results[i].name = e.name
    IN  IF "name" \in DOMAIN kwargs THEN SelectSeq(results, inNames) ELSE results

AfterReturnType(results, kwargs) ==
    LET hit(e) == Lower(e.return_type) = Lower(kwargs.return_type)
    IN  IF "return_type" \in DOMAIN kwargs THEN SelectSeq(results, hit) ELSE results

AfterCategory(results, kwargs) ==
    LET hit(e) == Lower(e.category) = Lower(kwargs.category)
    IN  IF "category" \in DOMAIN kwargs THEN SelectSeq(results, hit) ELSE results

AfterDescription(results, kwargs) ==
    LET hit(e) == Contains(Lower(e.description), Lower(kwargs.description))
    IN  IF "description" \in DOMAIN kwargs THEN SelectSeq(results, hit) ELSE results

\* e['return_type'] raises KeyError on an entry that has no such key
RaisesKeyError(results, kwargs) ==
    /\ "return_type" \in DOMAIN kwargs
    /\ \E i \in 1..Len(results) : "return_type" \notin DOMAIN results[i]

\* advanced_search after its name step: byName is what search_by_name gave,
\* [value, index]
AdvancedSearchFrom(results, kwargs, index) ==
    IF RaisesKeyError(results, kwargs)
    THEN [raised |-> "KeyError", value |-> <<>>, index |-> index]
    ELSE [raised |-> "none",
          value |-> AfterDescription(
                        AfterCategory(AfterReturnType(results, kwargs), kwargs),
                        kwargs),
          index |-> index]

AdvancedSearchNamed(sr, kwargs, byName) ==
    AdvancedSearchFrom(AfterName(sr.all_data, kwargs, byName.value), kwargs,
                       byName.index)

\* DataSearcher.advanced_search(**kwargs): [raised, value, index]; kwargs is a
\* record, and a keyword the method does not read is ignored
advanced_search(sr, kwargs) ==
    AdvancedSearchNamed(sr, kwargs,
                        IF "name" \in DOMAIN kwargs
                        THEN SearcherSearchByName(sr, kwargs.name, TRUE)
                        ELSE [value |-> <<>>, index |-> sr.index])

(***************************************************************************)
(* The docs directory the Store Builder reads: what the parsers return for *)
(* each source, a prefix of at most MaxPerSource entries of each list.     *)
(***************************************************************************)
DataTypesPool ==
    <<DataTypeEntry(s_Gold, s_needs_tax, <<>>, s_int, <<s_x>>),
      DataTypeEntry(s_Tax, <<>>, <<>>, s_Int, <<>>),
      DataTypeEntry(s_date, <<>>, <<>>, s_int, <<>>)>>

EffectsPool ==
    <<MarkdownEntry(s_gold, s_grants_gold, <<s_Country>>, <<>>),
      MarkdownEntry(s_golf, <<>>, <<s_country, s_province>>, <<>>),
      MarkdownEntry(s_gild, <<>>, <<>>, <<>>)>>

TriggersPool ==
    <<MarkdownEntry(s_gold, s_needs_tax, <<s_province>>, <<s_country>>),
      MarkdownEntry(s_bold, <<>>, <<s_country>>, <<>>),
      MarkdownEntry(s_told, <<>>, <<>>, <<>>)>>

EventTargetsPool ==
    <<MarkdownEntry(s_bolt, <<>>, <<>>, <<>>),
      MarkdownEntry(s_bold, s_grants_gold, <<>>, <<>>),
      MarkdownEntry(s_colt, <<>>, <<>>, <<>>)>>

ModifiersPool ==
    <<ModifierEntry(s_golfer, <<s_army>>),
      ModifierEntry(s_bolder, <<s_military>>),
      ModifierEntry(s_tax, <<>>)>>

Prefix(pool, n) == SubSeq(pool, 1, Min(n, Len(pool)))

\* a log file with no entry is left out: convert_all_data skips a log file
\* that does not exist
LogFile(stem, entries) ==
    IF entries = <<>> THEN <<>> ELSE <<[key |-> stem, value |-> entries]>>

Limits == (0 - NegLimits)..MaxLimit
NameInputs == {s_Gold, s_GOLD, s_gole, s_golx, s_bolt, s_tax, s_zz}
QueryInputs == {<<>>, s_gol, s_TAX, s_zz}
TypeInputs == {"data_type", "effect", "trigger", "modifier", "event_target", "unknown"}
ScopeInputs == {s_country, s_Country, s_province}
HandlerCategoryInputs == {s_common, s_Common, s_gui}

\* no call is in progress: queries are synchronous, one at a time
Idle == [name |-> "idle"]
NoResult == [raised |-> "none", value |-> <<>>]
Returned(value) == [raised |-> "none", value |-> value]

(***************************************************************************)
(* The state after construction: the Store Builder has written the output  *)
(* directory, and DataHandler and DataSearcher have loaded it.             *)
(***************************************************************************)
Init ==
    \E nd, ne, nt, nv, nm \in 0..MaxPerSource :
        LET txt == <<[key |-> s_data_types_common, value |-> Prefix(DataTypesPool, nd)]>>
            logs == LogFile(s_effects, Prefix(EffectsPool, ne))
                    \o LogFile(s_triggers, Prefix(TriggersPool, nt))
                    \o LogFile(s_event_targets, Prefix(EventTargetsPool, nv))
                    \o LogFile(s_modifiers, Prefix(ModifiersPool, nm))
            out == ConvertAllData(txt, logs)
        IN  /\ files = out
            /\ handler = LoadAllData(out)
            /\ searcher = LoadData(out)
            /\ op = Idle
            /\ result = NoResult

(***************************************************************************)
(* The operations of DataHandler.                                          *)
(***************************************************************************)
SearchByName ==
    /\ op = Idle
    /\ \E name \in NameInputs, fuzzy \in BOOLEAN, limit \in Limits :
        /\ op' = [name |-> "search_by_name", query |-> name, fuzzy |-> fuzzy,
                  limit |-> limit]
        /\ result' = Returned(HandlerSearchByName(handler, name, fuzzy, limit))
        /\ handler' = [handler EXCEPT
                           !.index = HandlerIndexAfterSearch(handler, name, fuzzy)]
        /\ UNCHANGED <<files, searcher>>

SearchModifiers ==
    /\ op = Idle
    /\ \E query \in QueryInputs, limit \in Limits :
        /\ op' = [name |-> "search_modifiers", query |-> query, limit |-> limit]
        /\ result' = Returned(search_modifiers(handler, query, limit))
        /\ UNCHANGED <<files, handler, searcher>>

SearchEffects ==
    /\ op = Idle
    /\ \E query \in QueryInputs, limit \in Limits :
        /\ op' = [name |-> "search_effects", query |-> query, limit |-> limit]
        /\ result' = Returned(search_effects(handler, query, limit))
        /\ UNCHANGED <<files, handler, searcher>>

SearchTriggers ==
    /\ op = Idle
    /\ \E query \in QueryInputs, limit \in Limits :
        /\ op' = [name |-> "search_triggers", query |-> query, limit |-> limit]
        /\ result' = Returned(search_triggers(handler, query, limit))
        /\ UNCHANGED <<files, handler, searcher>>

SearchEventTargets ==
    /\ op = Idle
    /\ \E query \in QueryInputs, limit \in Limits :
        /\ op' = [name |-> "search_event_targets", query |-> query, limit |-> limit]
        /\ result' = Returned(search_event_targets(handler, query, limit))
        /\ UNCHANGED <<files, handler, searcher>>

GetDataTypesByCategory ==
    /\ op = Idle
    /\ \E category \in HandlerCategoryInputs :
        /\ op' = [name |-> "get_data_types_by_category", category |-> category]
        /\ result' = Returned(get_data_types_by_category(handler, category))
        /\ UNCHANGED <<files, handler, searcher>>

GetDataByType ==
    /\ op = Idle
    /\ \E data_type \in TypeInputs, limit \in Limits :
        /\ op' = [name |-> "get_data_by_type", data_type |-> data_type,
                  limit |-> limit]
        /\ result' = Returned(get_data_by_type(handler, data_type, limit))
        /\ UNCHANGED <<files, handler, searcher>>

GetDataByScope ==
    /\ op = Idle
    /\ \E scope \in ScopeInputs, limit \in Limits :
        /\ op' = [name |-> "get_data_by_scope", scope |-> scope, limit |-> limit]
        /\ result' = Returned(get_data_by_scope(handler, scope, limit))
        /\ UNCHANGED <<files, handler, searcher>>

\* the call returns to its caller, which may make the next call
Return ==
    /\ op # Idle
    /\ op' = Idle
    /\ result' = NoResult
    /\ UNCHANGED <<files, handler, searcher>>

Next ==
    \/ SearchByName
    \/ SearchModifiers
    \/ SearchEffects
    \/ SearchTriggers
    \/ SearchEventTargets
    \/ GetDataTypesByCategory
    \/ GetDataByType
    \/ GetDataByScope
    \/ Return

Spec == Init /\ [][Next]_vars

(***************************************************************************)
(* The operations of DataSearcher.                                         *)
(***************************************************************************)
SearcherNameInputs == {s_Gold, s_gole, s_golx, s_bolt}
PatternInputs ==
    {<<"^", "$">>, <<>>, <<"(">>, <<")">>, <<"(", ")">>, s_gol, s_GOLD,
     <<"^">> \o s_gol, <<"o", "l", "d", "$">>, <<"(">> \o s_gol,
     <<"(", "^">> \o s_gold \o <<"$", ")">>, <<"$", "^">>, s_zz}
ReturnTypeInputs == {s_int, s_Int, s_zz}
CategoryInputs == {s_effects, s_Effects, s_modifiers, s_data_types_common, s_zz}
KindInputs == {"data_type", "effect", "modifier"}

SearcherSearchByNameCall ==
    /\ op = Idle
    /\ \E name \in SearcherNameInputs, fuzzy \in BOOLEAN :
        \E r \in {SearcherSearchByName(searcher, name, fuzzy)} :
            /\ op' = [name |-> "searcher.search_by_name", query |-> name,
                      fuzzy |-> fuzzy]
            /\ result' = Returned(r.value)
            /\ searcher' = [searcher EXCEPT !.index = r.index]
            /\ UNCHANGED <<files, handler>>

SearchByRegex ==
    /\ op = Idle
    /\ \E pattern \in PatternInputs :
        /\ op' = [name |-> "search_by_regex", pattern |-> pattern]
        /\ result' = Returned(search_by_regex(searcher, pattern))
        /\ UNCHANGED <<files, handler, searcher>>

SearchByType ==
    /\ op = Idle
    /\ \E return_type \in ReturnTypeInputs :
        /\ op' = [name |-> "search_by_type", return_type |-> return_type]
        /\ result' = Returned(search_by_type(searcher, return_type))
        /\ UNCHANGED <<files, handler, searcher>>

SearchByCategory ==
    /\ op = Idle
    /\ \E category \in CategoryInputs :
        /\ op' = [name |-> "search_by_category", category |-> category]
        /\ result' = Returned(search_by_category(searcher, category))
        /\ UNCHANGED <<files, handler, searcher>>

SearchByDescription ==
    /\ op = Idle
    /\ \E keyword \in QueryInputs :
        /\ op' = [name |-> "search_by_description", keyword |-> keyword]
        /\ result' = Returned(search_by_description(searcher, keyword))
        /\ UNCHANGED <<files, handler, searcher>>

\* advanced_search(**kwargs) with the keywords of kwargs
AdvancedSearchWith(kwargs) ==
    /\ op = Idle
    /\ \E r \in {advanced_search(searcher, kwargs)} :
        /\ op' = [name |-> "advanced_search", kwargs |-> kwargs]
        /\ result' = [raised |-> r.raised, value |-> r.value]
        /\ searcher' = [searcher EXCEPT !.index = r.index]
        /\ UNCHANGED <<files, handler>>

AdvancedSearch ==
    \/ \E kind \in KindInputs, category \in CategoryInputs :
           AdvancedSearchWith([kind |-> kind, category |-> category])
    \/ \E kind \in KindInputs : AdvancedSearchWith([kind |-> kind])
    \/ \E category \in CategoryInputs : AdvancedSearchWith([category |-> category])
    \/ \E return_type \in ReturnTypeInputs :
           AdvancedSearchWith([return_type |-> return_type])
    \/ \E return_type \in ReturnTypeInputs, category \in CategoryInputs :
           AdvancedSearchWith([return_type |-> return_type, category |-> category])
    \/ \E name \in SearcherNameInputs, keyword \in {<<>>, s_gol} :
           AdvancedSearchWith([name |-> name, description |-> keyword])

SearcherNext ==
    \/ SearcherSearchByNameCall
    \/ SearchByRegex
    \/ SearchByType
    \/ SearchByCategory
    \/ SearchByDescription
    \/ AdvancedSearch
    \/ Return

SearcherSpec == Init /\ [][SearcherNext]_vars

(***************************************************************************)
(* The lines and names the sources of the build are made of.               *)
(***************************************************************************)
d_date == <<"D", "A", "T", "E", "(", "a", "r", "g", "1", ")">>
d_tax_call == <<"T", "a", "x", "(", " ", ")">>
d_tax == <<"t", "a", "x">>
d_description ==
    <<"D", "e", "s", "c", "r", "i", "p", "t", "i", "o", "n", ":", " ", "t",
      "e", "s", "t">>
d_return_type ==
    <<"R", "e", "t", "u", "r", "n", " ", "t", "y", "p", "e", ":", " ", "i",
      "n", "t">>
d_definition_type ==
    <<"D", "e", "f", "i", "n", "i", "t", "i", "o", "n", " ", "t", "y", "p",
      "e", ":", " ", "x">>
d_description_twice ==
    <<"D", "e", "s", "c", "r", "i", "p", "t", "i", "o", "n", ":", " ", "a",
      " ", "D", "e", "s", "c", "r", "i", "p", "t", "i", "o", "n", ":", " ",
      "b">>
m_gold == <<"#", "#", " ", "g", "o", "l", "d">>
m_add_gold == <<"#", "#", " ", "a", "d", "d", "_", "g", "o", "l", "d">>
m_scopes ==
    <<"*", "*", "S", "u", "p", "p", "o", "r", "t", "e", "d", " ", "S", "c",
      "o", "p", "e", "s", "*", "*", ":", " ", "c", "o", "u", "n", "t", "r",
      "y", ",", " ", "p", "r", "o", "v", "i", "n", "c", "e">>
m_targets ==
    <<"*", "*", "S", "u", "p", "p", "o", "r", "t", "e", "d", " ", "T", "a",
      "r", "g", "e", "t", "s", "*", "*", ":", " ", ",", " ", "x", ",">>
m_grants_gold ==
    <<"G", "r", "a", "n", "t", "s", " ", "g", "o", "l", "d", ".">>
m_note == <<"*", "*", "N", "o", "t", "e", "*", "*", ":", " ", "x">>
t_army_size ==
    <<"T", "a", "g", ":", " ", "a", "r", "m", "y", "_", "s", "i", "z", "e",
      ",", " ", "C", "a", "t", "e", "g", "o", "r", "i", "e", "s", ":", " ",
      "m", "i", "l", "i", "t", "a", "r", "y", ",", " ", "A", "l", "l">>
t_tax ==
    <<"T", "a", "g", ":", " ", "t", "a", "x", ",", " ", "C", "a", "t", "e",
      "g", "o", "r", "i", "e", "s", ":", " ", "A", "l", "l", ",", " ", ",",
      " ", "a", "r", "m", "y">>
t_bolder ==
    <<"T", "a", "g", ":", " ", "b", "o", "l", "d", "e", "r", ",", " ", "C",
      "a", "t", "e", "g", "o", "r", "i", "e", "s", ":">>
t_blank_tag ==
    <<"T", "a", "g", ":", " ", " ", ",", " ", "C", "a", "t", "e", "g", "o",
      "r", "i", "e", "s", ":", " ", "a", "r", "m", "y">>
t_banner ==
    <<"P", "r", "i", "n", "t", "i", "n", "g", " ", "m", "o", "d", "i", "f",
      "i", "e", "r", "s">>
t_indented ==
    <<" ", " ", "T", "a", "g", ":", " ", "g", "o", "l", "d", ",", "C", "a",
      "t", "e", "g", "o", "r", "i", "e", "s", ":", " ", "a", "l", "l", " ">>
s_txt == <<".", "t", "x", "t">>
s_log == <<".", "l", "o", "g">>
s_army_size == <<"a", "r", "m", "y", "_", "s", "i", "z", "e">>
s_add_gold == <<"a", "d", "d", "_", "g", "o", "l", "d">>
s_DATE == <<"D", "A", "T", "E">>
s_arg1 == <<"a", "r", "g", "1">>
s_test == <<"t", "e", "s", "t">>
s_all == <<"a", "l", "l">>
s_Grants_gold ==
    <<"G", "r", "a", "n", "t", "s", " ", "g", "o", "l", "d", ".">>
s_Note == <<"*", "*", "N", "o", "t", "e", "*", "*", ":", " ", "x">>
s_gold_call == <<"G", "O", "L", "D", "(", ")">>
s_dot == <<".">>

(***************************************************************************)
(* The docs directory and the run of the Store Builder over it.  In this   *)
(* part files is the file system of the build: a source of docs under its  *)
(* file name (effects.log, data_types_common.txt), a JSON file of mcp-data *)
(* under its stem.                                                         *)
(***************************************************************************)
\* the handler and the searcher before anything is constructed
None == [none |-> TRUE]

\* s.endswith(suffix)
EndsWith(s, suffix) ==
    Len(suffix) <= Len(s) /\ From(s, Len(s) - Len(suffix) + 1) = suffix

\* Path.stem: the file name without its last suffix
Stem(file_name) ==
    LET dots == {i \in 2..Len(file_name) : file_name[i] = "."}
    IN  IF dots = {} THEN file_name ELSE SubSeq(file_name, 1, SetMax(dots) - 1)

\* the characters of the file names, in code point order
CodePoints ==
    <<".", "0", "1", "2", "3", "4", "5", "6", "7", "8", "9",
      "A", "B", "C", "D", "E", "F", "G", "H", "I", "J", "K", "L", "M", "N", "O",
      "P", "Q", "R", "S", "T", "U", "V", "W", "X", "Y", "Z", "_",
      "a", "b", "c", "d", "e", "f", "g", "h", "i", "j", "k", "l", "m", "n", "o",
      "p", "q", "r", "s", "t", "u", "v", "w", "x", "y", "z">>
Ord(c) == CHOOSE i \in 1..Len(CodePoints) : CodePoints[i] = c

\* a < b, for two str
RECURSIVE StrLess(_, _)
StrLess(a, b) ==
    IF b = <<>> THEN FALSE
    ELSE IF a = <<>> THEN TRUE
    ELSE IF Head(a) # Head(b) THEN Ord(Head(a)) < Ord(Head(b))
    ELSE StrLess(Tail(a), Tail(b))

\* sorted(names)
RECURSIVE Sorted(_)
Sorted(names) ==
    IF names = <<>> THEN <<>>
    ELSE LET least == CHOOSE i \in 1..Len(names) :
                          \A j \in 1..Len(names) : ~StrLess(names[j], names[i])
         IN  <<names[least]>>
             \o Sorted([j \in 1..(Len(names) - 1) |->
                           IF j < least THEN names[j] ELSE names[j + 1]])

\* data_types_dir.glob('*.txt'), in the order the file system gives
GlobTxt(fs) ==
    LET is_txt(f) == EndsWith(f.key, s_txt)
        found == SelectSeq(fs, is_txt)
    IN  [i \in 1..Len(found) |-> found[i].key]

\* what the first loop parses: the *.txt files, sorted, by stem
ParsedTxt(fs) ==
    LET txt_files == Sorted(GlobTxt(fs))
    IN  [i \in 1..Len(txt_files) |->
            [key |-> Stem(txt_files[i]),
             value |-> parse_data_type_file(Get(fs, txt_files[i]))]]

\* the second loop ended by the first log file that does not exist
ParsedLogs_StopAtMissing(fs) ==
    LET missing == {i \in 1..Len(log_files) : ~HasKey(fs, log_files[i] \o s_log)}
        last == IF missing = {} THEN Len(log_files) ELSE SetMin(missing) - 1
    IN  [i \in 1..last |->
            [key |-> log_files[i],
             value |-> parse_log_file(log_files[i], Get(fs, log_files[i] \o s_log))]]

\* what the second loop parses: the log files of log_files that exist
ParsedLogs(fs) ==
    Flatten([i \in 1..Len(log_files) |->
        IF HasKey(fs, log_files[i] \o s_log)
        THEN <<[key |-> log_files[i],
                value |-> parse_log_file(log_files[i],
                                         Get(fs, log_files[i] \o s_log))]>>
        ELSE <<>>])

\* the files of out written into the file system fs
RECURSIVE WriteFiles(_, _)
WriteFiles(fs, out) ==
    IF out = <<>> THEN fs
    ELSE WriteFiles(DictSet(fs, Head(out).key, Head(out).value), Tail(out))

\* convert_all_data over the sources of the file system
ConvertDocs(fs) == WriteFiles(fs, ConvertAllData(ParsedTxt(fs), ParsedLogs(fs)))

(***************************************************************************)
(* The sources of the build: one source of up to MaxLines lines drawn from *)
(* the lines of its convention, or a docs directory of several short       *)
(* sources that share names.                                               *)
(***************************************************************************)
DataTypeLines ==
    {d_date, d_tax_call, d_tax, d_description, d_return_type, d_definition_type,
     d_description_twice, RuleLine, <<>>}
MarkdownLines ==
    {m_gold, m_add_gold, m_scopes, m_targets, m_grants_gold, m_note, <<>>}
ModifierLines ==
    {t_army_size, t_tax, t_bolder, t_blank_tag, t_banner, t_indented, d_tax, <<>>}

\* the text of a list of lines, each ended by a newline
TextOf(lines) == Flatten([i \in 1..Len(lines) |-> lines[i] \o NL])

TextsOf(pool) == {TextOf(lines) : lines \in UNION {[1..n -> pool] : n \in 0..MaxLines}}

f_data_types_common == s_data_types_common \o s_txt
f_data_types_gui == s_data_types_gui \o s_txt
f_effects == s_effects \o s_log
f_triggers == s_triggers \o s_log
f_event_targets == s_event_targets \o s_log
f_modifiers == s_modifiers \o s_log
\* a data-type file whose stem is the stem of a log
f_effects_txt == s_effects \o s_txt

MarkdownSources == {f_effects, f_triggers, f_event_targets}

\* one source file
OneSource ==
    {<<[key |-> f_data_types_common, value |-> t]>> : t \in TextsOf(DataTypeLines)}
    \cup {<<[key |-> f, value |-> t]>> :
              f \in MarkdownSources, t \in TextsOf(MarkdownLines)}
    \cup {<<[key |-> f_modifiers, value |-> t]>> : t \in TextsOf(ModifierLines)}

\* a file that may be absent
Maybe(file_name, text) == {<<>>, <<[key |-> file_name, value |-> text]>>}

\* several sources that hold a Record named gold, in either order of creation
SeveralSources ==
    UNION {{a \o b \o c \o d \o e \o f, f \o e \o d \o c \o b \o a} :
        a \in Maybe(f_data_types_common, TextOf(<<s_gold_call, RuleLine, d_tax>>)),
        b \in Maybe(f_data_types_gui, TextOf(<<s_Gold>>)),
        c \in Maybe(f_effects, TextOf(<<<<>>, m_gold, m_grants_gold>>)),
        d \in Maybe(f_triggers, TextOf(<<<<>>, m_gold, m_scopes>>)),
        e \in Maybe(f_modifiers, TextOf(<<t_banner, t_tax, t_indented>>)),
        f \in Maybe(f_effects_txt, TextOf(<<s_Tax, RuleLine, s_bolt>>))}

BuildInit ==
    /\ files \in OneSource \cup SeveralSources
    /\ handler = None
    /\ searcher = None
    /\ op = Idle
    /\ result = NoResult

ParseDataTypeFile ==
    /\ op = Idle
    /\ \E i \in 1..Len(files) :
        /\ EndsWith(files[i].key, s_txt)
        /\ op' = [name |-> "parse_data_type_file", file |-> files[i].key]
        /\ result' = Returned(parse_data_type_file(files[i].value))
        /\ UNCHANGED <<files, handler, searcher>>

ParseLogFile ==
    /\ op = Idle
    /\ \E i \in 1..Len(files) :
        /\ EndsWith(files[i].key, s_log)
        /\ op' = [name |-> "parse_log_file", file |-> files[i].key]
        /\ result' = Returned(parse_log_file(Stem(files[i].key), files[i].value))
        /\ UNCHANGED <<files, handler, searcher>>

\* convert_all_data; its result is the total it reports
ConvertAll ==
    /\ op = Idle
    /\ op' = [name |-> "convert_all_data"]
    /\ files' = ConvertDocs(files)
    /\ result' = Returned(TotalCount(ParsedTxt(files), ParsedLogs(files)))
    /\ UNCHANGED <<handler, searcher>>

BuildNext ==
    \/ ParseDataTypeFile
    \/ ParseLogFile
    \/ ConvertAll
    \/ Return

BuildSpec == BuildInit /\ [][BuildNext]_vars

(***************************************************************************)
(* server.py: the start of the MCP server and the tools and resources it   *)
(* registers.  A file of mcp-data that json.load cannot decode is an entry *)
(* of the file system with the field corrupt and no value.                 *)
(***************************************************************************)
\* the persisted file under stem k is present and is not valid JSON
IsCorrupt(fs, k) == \E i \in 1..Len(fs) : fs[i].key = k /\ "corrupt" \in DOMAIN fs[i]

\* the files _load_all_data opens when they exist, in the order it opens them
loaded_files ==
    <<s_index, s_all_data, s_modifiers, s_effects, s_triggers, s_event_targets>>
    \o [i \in 1..Len(data_type_categories) |-> s_data_types_ \o data_type_categories[i]]

\* json.load raises in _load_all_data, which logs and raises again
LoadRaises(fs) == \E i \in 1..Len(loaded_files) : IsCorrupt(fs, loaded_files[i])

\* the files of fs that decode
Decoded(fs) ==
    LET ok(f) == "corrupt" \notin DOMAIN f
    IN  SelectSeq(fs, ok)

\* initialize_data_handler that keeps what was loaded when a file fails
initialize_data_handler_ServePartial(fs) ==
    [data_handler |-> LoadAllData(Decoded(fs)), returned |-> ~LoadRaises(fs)]

\* initialize_data_handler: the global data_handler and the value returned
initialize_data_handler(fs) ==
    IF LoadRaises(fs)
    THEN [data_handler |-> None, returned |-> FALSE]
    ELSE [data_handler |-> LoadAllData(fs), returned |-> TRUE]

\* DataHandler.get_statistics
get_statistics(h) ==
    LET is_data_type(item) == Field(item, "type", "none") = "data_type"
    IN  [total_entries |-> Len(h.all_data),
         data_types |-> Len(SelectSeq(h.all_data, is_data_type)),
         effects |-> Len(h.effects),
         triggers |-> Len(h.triggers),
         modifiers |-> Len(h.modifiers),
         event_targets |-> Len(h.event_targets),
         data_type_categories |->
             [i \in 1..Len(data_type_categories) |->
                 Len(GetOr(h.data_types_by_category, data_type_categories[i], <<>>))]]

\* data[:100] of the resources
ResourceCap == 100

\* json.dumps({"error": "Data handler not initialized"})
NotInitialized == [raised |-> "none", error |-> "Data handler not initialized"]

\* the body every tool and resource has: the error when there is no handler,
\* else the answer of the handler
Answer(call, value) ==
    /\ op = Idle
    /\ op' = call
    /\ result' = IF handler = None THEN NotInitialized ELSE Returned(value)
    /\ UNCHANGED <<files, handler, searcher>>

\* main is about to call register_all_features
Starting == [name |-> "main"]

\* a store of mcp-data, some of its files corrupt
Corrupted(fs, bad) ==
    [i \in 1..Len(fs) |->
        IF fs[i].key \in bad THEN [key |-> fs[i].key, corrupt |-> TRUE] ELSE fs[i]]

ServerInit ==
    \E n \in 0..MaxPerSource, m \in 0..MaxPerSource :
        LET txt == <<[key |-> s_data_types_common, value |-> Prefix(DataTypesPool, n)]>>
            logs == LogFile(s_effects, Prefix(EffectsPool, n))
                    \o LogFile(s_triggers, Prefix(TriggersPool, m))
                    \o LogFile(s_event_targets, Prefix(EventTargetsPool, m))
                    \o LogFile(s_modifiers, Prefix(ModifiersPool, n))
                    \o LogFile(s_on_actions, Prefix(EffectsPool, m))
            out == ConvertAllData(txt, logs)
            stems == {out[i].key : i \in 1..Len(out)}
        IN  \E bad \in {b \in SUBSET stems : Cardinality(b) <= MaxCorrupt} :
                /\ files = Corrupted(out, bad)
                /\ handler = None
                /\ searcher = None
                /\ op = Starting
                /\ result = NoResult

\* register_all_features: initialize_data_handler, then the tools and the
\* resources are registered with the handler it left
RegisterAllFeatures ==
    /\ op = Starting
    /\ op' = [name |-> "register_all_features"]
    /\ handler' = initialize_data_handler(files).data_handler
    /\ result' = Returned(initialize_data_handler(files).returned)
    /\ UNCHANGED <<files, searcher>>

ToolNames ==
    {"search_by_name", "search_modifiers", "search_effects", "search_triggers",
     "search_event_targets", "search_by_type", "search_by_scope",
     "get_data_types_by_category", "get_statistics"}

ResourceNames ==
    {"modifiers://", "effects://", "triggers://", "event-targets://",
     "data-types-common://", "data-types-gui://", "data-types-script://",
     "statistics://"}

ServerLimits == {1, MaxLimit}

ToolSearchByName ==
    \E name \in {s_Gold, s_gole}, fuzzy \in BOOLEAN, limit \in ServerLimits :
        Answer([name |-> "search_by_name", query |-> name, fuzzy |-> fuzzy,
                limit |-> limit],
               HandlerSearchByName(handler, name, fuzzy, limit))

ToolSearchModifiers ==
    \E query \in {s_gol, s_zz}, limit \in ServerLimits :
        Answer([name |-> "search_modifiers", query |-> query, limit |-> limit],
               search_modifiers(handler, query, limit))

ToolSearchEffects ==
    \E query \in {s_gol, s_zz}, limit \in ServerLimits :
        Answer([name |-> "search_effects", query |-> query, limit |-> limit],
               search_effects(handler, query, limit))

ToolSearchTriggers ==
    \E query \in {s_gol, s_zz}, limit \in ServerLimits :
        Answer([name |-> "search_triggers", query |-> query, limit |-> limit],
               search_triggers(handler, query, limit))

ToolSearchEventTargets ==
    \E query \in {s_gol, s_zz}, limit \in ServerLimits :
        Answer([name |-> "search_event_targets", query |-> query, limit |-> limit],
               search_event_targets(handler, query, limit))

ToolSearchByType ==
    \E data_type \in {"data_type", "effect", "modifier"}, limit \in ServerLimits :
        Answer([name |-> "search_by_type", data_type |-> data_type, limit |-> limit],
               get_data_by_type(handler, data_type, limit))

ToolSearchByScope ==
    \E scope \in {s_country}, limit \in ServerLimits :
        Answer([name |-> "search_by_scope", scope |-> scope, limit |-> limit],
               get_data_by_scope(handler, scope, limit))

ToolGetDataTypesByCategory ==
    \E category \in {s_common, s_gui} :
        Answer([name |-> "get_data_types_by_category", category |-> category],
               get_data_types_by_category(handler, category))

ToolGetStatistics ==
    Answer([name |-> "get_statistics"], get_statistics(handler))

ResourceModifiers ==
    Answer([name |-> "modifiers://"], SliceTo(handler.modifiers, ResourceCap))

ResourceEffects ==
    Answer([name |-> "effects://"], SliceTo(handler.effects, ResourceCap))

ResourceTriggers ==
    Answer([name |-> "triggers://"], SliceTo(handler.triggers, ResourceCap))

ResourceEventTargets ==
    Answer([name |-> "event-targets://"], handler.event_targets)

ResourceDataTypes ==
    \E r \in {[uri |-> "data-types-common://", category |-> s_common],
              [uri |-> "data-types-gui://", category |-> s_gui],
              [uri |-> "data-types-script://", category |-> s_script]} :
        Answer([name |-> r.uri],
               SliceTo(get_data_types_by_category(handler, r.category), ResourceCap))

ResourceStatistics ==
    Answer([name |-> "statistics://"], get_statistics(handler))

ServerNext ==
    \/ RegisterAllFeatures
    \/ ToolSearchByName
    \/ ToolSearchModifiers
    \/ ToolSearchEffects
    \/ ToolSearchTriggers
    \/ ToolSearchEventTargets
    \/ ToolSearchByType
    \/ ToolSearchByScope
    \/ ToolGetDataTypesByCategory
    \/ ToolGetStatistics
    \/ ResourceModifiers
    \/ ResourceEffects
    \/ ResourceTriggers
    \/ ResourceEventTargets
    \/ ResourceDataTypes
    \/ ResourceStatistics
    \/ Return

ServerSpec == ServerInit /\ [][ServerNext]_vars

(***************************************************************************)
(* Properties of DataHandler, checked under Spec.                          *)
(***************************************************************************)
LimitedOps ==
    {"search_by_name", "search_modifiers", "search_effects", "search_triggers",
     "search_event_targets", "get_data_by_type", "get_data_by_scope"}

\* s is t cut after some element
IsPrefix(s, t) == Len(s) <= Len(t) /\ s = SubSeq(t, 1, Len(s))

\* the first n of s, for n >= 0
FirstN(s, n) == SubSeq(s, 1, Min(n, Len(s)))

\* C1: every limited operation of DataHandler returns at most `limit` Records
\* for every limit >= 0, and none for limit = 0.
C1_LimitRespected ==
    (op.name \in LimitedOps /\ op.limit >= 0) =>
        /\ result.raised = "none"
        /\ Len(result.value) <= op.limit
        /\ (op.limit = 0 => result.value = <<>>)

\* a fuzzy search_by_name and a search by kind that found more than the limit
\* allows, and returned exactly `limit` Records
C1_Witness ==
    /\ op.name = "search_by_name"
    /\ op.fuzzy
    /\ ~HasKey(handler.index, Lower(op.query))
    /\ op.limit = 2
    /\ Len(result.value) = 2
    /\ Cardinality({i \in 1..Len(handler.index) :
           AboveThreshold(Ratio(Lower(op.query), handler.index[i].key))}) > 2

\* C2: every limited operation of DataHandler returns no Record for every
\* limit <= 0, negative limits included.
C2_NonPositiveLimitEmpty ==
    (op.name \in LimitedOps /\ op.limit <= 0) => result.value = <<>>

\* C3: search_by_name on a query whose lowercased text is a key of the Name
\* Index returns the first `limit` Records registered under that key, in their
\* index order, and nothing of the fuzzy path, whatever the fuzzy flag; on a
\* query that is no key, with fuzzy false, it returns nothing.
C3_ExactLookup ==
    op.name = "search_by_name" =>
        LET key == Lower(op.query)
            r == result.value
        IN  /\ HasKey(handler.index, key) =>
                /\ IsPrefix(r, Get(handler.index, key))
                /\ (op.limit >= 0 => r = FirstN(Get(handler.index, key), op.limit))
                /\ \A i \in 1..Len(r) :
                       /\ "similarity" \notin DOMAIN r[i]
                       /\ Lower(r[i].name) = key
            /\ (~HasKey(handler.index, key) /\ ~op.fuzzy) => r = <<>>

\* an exact hit with fuzzy set, on a key with three Records, cut to two, while
\* another key of the index is above the fuzzy threshold
C3_Witness ==
    /\ op.name = "search_by_name"
    /\ op.fuzzy
    /\ op.query = s_GOLD
    /\ HasKey(handler.index, s_gold)
    /\ Len(Get(handler.index, s_gold)) = 3
    /\ op.limit = 2
    /\ Len(result.value) = 2
    /\ HasKey(handler.index, s_golf)
    /\ AboveThreshold(Ratio(s_gold, s_golf))

\* the fuzzy candidates of a query, as positions <<i, j>> of the index: entry j
\* of the i-th key, for the keys whose ratio to the query is above 3/5
Candidates(index, q) ==
    UNION {{<<i, j>> : j \in 1..Len(index[i].value)} :
              i \in {k \in 1..Len(index) :
                        5 * Ratio(q, index[k].key).num
                            > 3 * Ratio(q, index[k].key).den}}

\* candidate p comes before candidate c: a greater ratio, or the same ratio and
\* an earlier place in the index
Before(index, q, p, c) ==
    LET sp == Ratio(q, index[p[1]].key)
        sc == Ratio(q, index[c[1]].key)
    IN  \/ sp.num * sc.den > sc.num * sp.den
        \/ /\ sp.num * sc.den = sc.num * sp.den
           /\ \/ p[1] < c[1]
              \/ p[1] = c[1] /\ p[2] < c[2]

\* C4: on the fuzzy path, search_by_name returns Records that each carry a
\* similarity strictly above 0.6, in non-increasing order of similarity, equal
\* similarities in Name-Index order, and the list is the first `limit` of the
\* whole sorted sequence of candidates.
C4_FuzzyRanking ==
    (op.name = "search_by_name" /\ op.fuzzy
        /\ ~HasKey(handler.index, Lower(op.query))) =>
        LET q == Lower(op.query)
            r == result.value
            cands == Candidates(handler.index, q)
            \* the candidate that belongs at place k of the sorted sequence
            at(k) == CHOOSE p \in cands :
                         Cardinality({c \in cands :
                             Before(handler.index, q, c, p)}) = k - 1
        IN  /\ Len(r) <= Cardinality(cands)
            /\ (op.limit >= 0 => Len(r) = Min(op.limit, Cardinality(cands)))
            /\ \A k \in 1..Len(r) :
                   /\ "similarity" \in DOMAIN r[k]
                   /\ 5 * r[k].similarity.num > 3 * r[k].similarity.den
                   /\ r[k].similarity = Ratio(q, handler.index[at(k)[1]].key)
                   /\ [f \in DOMAIN r[k] \ {"similarity"} |-> r[k][f]]
                          = handler.index[at(k)[1]].value[at(k)[2]]
            /\ \A k \in 1..(Len(r) - 1) :
                   r[k].similarity.num * r[k + 1].similarity.den
                       >= r[k + 1].similarity.num * r[k].similarity.den

\* a fuzzy search that drops a key whose ratio is exactly 0.6, ranks a key
\* that comes later in the index first, keeps two keys of equal ratio in index
\* order, and is cut by the limit
C4_Witness ==
    /\ op.name = "search_by_name"
    /\ op.fuzzy
    /\ op.query = s_gole
    /\ ~HasKey(handler.index, s_gole)
    /\ \E i \in 1..Len(handler.index) :
           /\ handler.index[i].key = s_bolder
           /\ Ratio(s_gole, s_bolder).num * 5 = Ratio(s_gole, s_bolder).den * 3
    /\ op.limit = 3
    /\ Len(result.value) = 3
    /\ result.value[1].name = s_golfer
    /\ Lower(result.value[2].name) = s_gold
    /\ HasKey(handler.index, s_golf)
    /\ \A k \in 1..3 : result.value[k].name # s_bolder

\* C5 as stated: search_by_name with fuzzy = true on a query equal, case
\* aside, to a key returns the Records of that key with similarity 1.0 attached.
C5_ReflexiveWithSimilarity ==
    (op.name = "search_by_name" /\ op.fuzzy /\ op.limit >= 1
        /\ HasKey(handler.index, Lower(op.query))) =>
        /\ result.value # <<>>
        /\ \A i \in 1..Len(result.value) :
               /\ Lower(result.value[i].name) = Lower(op.query)
               /\ "similarity" \in DOMAIN result.value[i]
               /\ result.value[i].similarity.num = result.value[i].similarity.den

\* C5 amended: the ratio of such a query to its key is 1.0, and DataHandler's
\* search_by_name with fuzzy = true answers it through the exact path: the
\* first `limit` Records of that key, none carrying a similarity.
C5_ReflexiveExactPath ==
    (op.name = "search_by_name" /\ op.fuzzy /\ op.limit >= 1
        /\ HasKey(handler.index, Lower(op.query))) =>
        /\ \A i \in 1..Len(handler.index) :
               handler.index[i].key = Lower(op.query) =>
                   Ratio(Lower(op.query), handler.index[i].key).num
                       = Ratio(Lower(op.query), handler.index[i].key).den
        /\ result.value # <<>>
        /\ result.value = FirstN(Get(handler.index, Lower(op.query)), op.limit)
        /\ \A i \in 1..Len(result.value) :
               "similarity" \notin DOMAIN result.value[i]

\* a fuzzy search_by_name whose query differs from its key in case only
C5_Witness ==
    /\ op.name = "search_by_name"
    /\ op.fuzzy
    /\ op.query = s_Gold
    /\ HasKey(handler.index, s_gold)
    /\ op.limit = 1
    /\ Len(result.value) = 1

\* C6: get_data_by_scope returns, up to `limit`, every Record of the Flat
\* Collection whose supported_scopes holds the scope, compared without case;
\* so it is non-empty when some Record supports the scope and limit >= 1.
C6_ScopeSearch ==
    (op.name = "get_data_by_scope" /\ op.limit >= 0) =>
        LET supports(item) ==
                \E k \in 1..Len(Field(item, "supported_scopes", <<>>)) :
                    Lower(item.supported_scopes[k]) = Lower(op.scope)
        IN  result.value = FirstN(SelectSeq(handler.all_data, supports), op.limit)

\* C10: two categories that differ in case only give the same result, in
\* DataSearcher.search_by_category and in DataHandler.get_data_types_by_category.
C10_CategoryCaseInsensitive ==
    /\ op.name = "get_data_types_by_category" =>
           \A c \in HandlerCategoryInputs :
               Lower(c) = Lower(op.category) =>
                   result.value = get_data_types_by_category(handler, c)
    /\ op.name = "search_by_category" =>
           \A c \in {s_effects, s_Effects, s_modifiers, s_data_types_common, s_zz} :
               Lower(c) = Lower(op.category) =>
                   result.value = search_by_category(searcher, c)

(***************************************************************************)
(* Properties of DataSearcher, checked under SearcherSpec.                 *)
(***************************************************************************)
\* C7: advanced_search with the filters kind = k and category = c returns
\* exactly the Records of kind k and of category c (category without case),
\* the intersection of the two single-filter results.
C7_CompositeIntersection ==
    (op.name = "advanced_search" /\ DOMAIN op.kwargs = {"kind", "category"}) =>
        LET both(e) == /\ Field(e, "type", "none") = op.kwargs.kind
                       /\ Lower(e.category) = Lower(op.kwargs.category)
        IN  /\ result.raised = "none"
            /\ result.value = SelectSeq(searcher.all_data, both)

\* C8: advanced_search with a return_type filter never raises: it returns the
\* data_type Records of that return type, a possibly empty list.
C8_ReturnTypeNeverRaises ==
    (op.name = "advanced_search" /\ DOMAIN op.kwargs = {"return_type"}) =>
        LET hit(e) == /\ Field(e, "type", "none") = "data_type"
                      /\ Lower(Field(e, "return_type", <<>>))
                             = Lower(op.kwargs.return_type)
        IN  /\ result.raised = "none"
            /\ result.value = SelectSeq(searcher.all_data, hit)

\* the pattern is made of letters only
IsLiteral(pattern) ==
    \A i \in 1..Len(pattern) : pattern[i] \notin {"^", "$", "(", ")"}

\* C9: search_by_regex returns the empty list, and raises nothing, for a
\* pattern that does not compile; for one that compiles, exactly the Records
\* whose name it matches without case, in collection order; so the pattern ^$
\* returns nothing when no Record has an empty name.
C9_RegexSearch ==
    op.name = "search_by_regex" =>
        LET p == op.pattern
            matched(e) == RegexSearch(p, e.name)
            holds(e) == Contains(Lower(e.name), Lower(p))
        IN  /\ result.raised = "none"
            /\ Compiles(p) =
                   (/\ \A n \in 0..Len(p) :
                          Cardinality({i \in 1..n : p[i] = "("})
                              >= Cardinality({i \in 1..n : p[i] = ")"})
                    /\ Cardinality({i \in 1..Len(p) : p[i] = "("})
                           = Cardinality({i \in 1..Len(p) : p[i] = ")"}))
            /\ ~Compiles(p) => result.value = <<>>
            /\ Compiles(p) => result.value = SelectSeq(searcher.all_data, matched)
            /\ IsLiteral(p) => result.value = SelectSeq(searcher.all_data, holds)
            /\ (p = <<"^", "$">>
                   /\ \A i \in 1..Len(searcher.all_data) :
                          searcher.all_data[i].name # <<>>)
                   => result.value = <<>>

\* a pattern with an unclosed parenthesis whose letters occur in the name of a
\* Record of the collection: the result is empty
C9_Witness ==
    /\ op.name = "search_by_regex"
    /\ op.pattern = <<"(">> \o s_gol
    /\ \E i \in 1..Len(searcher.all_data) :
           Contains(Lower(searcher.all_data[i].name), s_gol)
    /\ result.raised = "none"
    /\ result.value = <<>>

(***************************************************************************)
(* Properties of the parsers and the Store Builder, checked under          *)
(* BuildSpec.                                                              *)
(***************************************************************************)
\* the source the parser call in progress was given
Source == Get(files, op.file)

\* the lines of a text
LinesOf(content) == Split(content, NL)

Names(records) == [i \in 1..Len(records) |-> records[i].name]

IsMarkdownCall == op.name = "parse_log_file" /\ Stem(op.file) # s_modifiers
IsModifierCall == op.name = "parse_log_file" /\ Stem(op.file) = s_modifiers
IsDataTypeCall == op.name = "parse_data_type_file"

\* a heading: the marker ## at the start of a line, whitespace, the text
IsHeading(line) == Len(line) > 2 /\ StartsWith(line, s_hashes) /\ IsSpace(line[3])
HeadingText(line) == Strip(From(line, 3))
Headings(content) == SelectSeq(LinesOf(content), IsHeading)

\* C11: the Heading-Block parser yields exactly one Record per heading of the
\* source, named by the heading's text without the marker, also for a heading
\* on the first line; text before the first heading yields no Record.
C11_OneRecordPerHeading ==
    (IsMarkdownCall /\ Contains(Source, s_hashes)) =>
        Names(result.value)
            = [i \in 1..Len(Headings(Source)) |-> HeadingText(Headings(Source)[i])]

Kinds == {"data_type", "effect", "trigger", "modifier", "event_target"}

\* C12: every Record a parser produces has a non-empty name and a kind among
\* the five known tags; a block or line whose name would be empty yields no
\* Record.
C12_NamedAndKinded ==
    (IsDataTypeCall \/ IsMarkdownCall \/ IsModifierCall) =>
        \A i \in 1..Len(result.value) :
            /\ result.value[i].name # <<>>
            /\ result.value[i].type \in Kinds

\* the kind the identity of a Heading-Block source selects
KindOfCategory(category) ==
    IF category = s_triggers THEN "trigger"
    ELSE IF category = s_event_targets THEN "event_target"
    ELSE "effect"

HeadingCategories == {s_effects, s_triggers, s_event_targets}

\* C13: after the build, every Record of the triggers source has kind trigger,
\* every Record of the event_targets source kind event_target and every Record
\* of the effects source kind effect, in the Flat Collection and in the Name
\* Index.
C13_KindFromSource ==
    op.name = "convert_all_data" =>
        LET all == GetOr(files, s_all_data, <<>>)
            index == GetOr(files, s_index, <<>>)
        IN  /\ \A i \in 1..Len(all) :
                all[i].category \in HeadingCategories =>
                    all[i].type = KindOfCategory(all[i].category)
            /\ \A i \in 1..Len(index) : \A j \in 1..Len(index[i].value) :
                index[i].value[j].category \in HeadingCategories =>
                    index[i].value[j].type = KindOfCategory(index[i].value[j].category)

\* the Records of the sources in the order the sources are processed, each as
\* its category and name
Processed(fs) ==
    LET sources == ParsedTxt(fs) \o ParsedLogs(fs)
    IN  Flatten([i \in 1..Len(sources) |->
            [j \in 1..Len(sources[i].value) |->
                [category |-> sources[i].key, name |-> sources[i].value[j].name]]])

\* the data-type files come first, in lexicographic order, the logs after them
\* in the order of the fixed list
InProcessingOrder(fs) ==
    LET sources == ParsedTxt(fs) \o ParsedLogs(fs)
        rank(c) == IF InList(c, log_files)
                   THEN CHOOSE k \in 1..Len(log_files) : log_files[k] = c
                   ELSE 0
    IN  \A i, j \in 1..Len(sources) :
            i < j => \/ rank(sources[i].key) < rank(sources[j].key)
                     \/ /\ rank(sources[i].key) = 0
                        /\ rank(sources[j].key) = 0
                        /\ StrLess(sources[i].key, sources[j].key)

\* C14: the Store Builder registers every Record of every parsed source in
\* the Name Index under its lowercased name by appending, so the list of a key
\* holds every Record of that lowercased name, of whatever category, in the
\* order the sources were processed: the data-type files in lexicographic
\* order, then the logs of the fixed list.
C14_IndexAppends ==
    op.name = "convert_all_data" =>
        LET index == Get(files, s_index)
            processed == Processed(files)
        IN  /\ InProcessingOrder(files)
            /\ \A p \in 1..Len(processed) : HasKey(index, Lower(processed[p].name))
            /\ \A i \in 1..Len(index) :
                LET under(r) == Lower(r.name) = index[i].key
                    expected == SelectSeq(processed, under)
                IN  /\ expected # <<>>
                    /\ [j \in 1..Len(index[i].value) |->
                           [category |-> index[i].value[j].category,
                            name |-> index[i].value[j].name]] = expected

HasSimilarity(r) == "similarity" \in DOMAIN r

\* the Records under the keys of an index
IndexRecords(index) == Flatten([i \in 1..Len(index) |-> index[i].value])

\* C16, under Spec: after any sequence of DataHandler queries the Name Index,
\* the Flat Collection and the other lists equal what was loaded; a fuzzy
\* search_by_name attaches the similarity to the Records it returns and no
\* Record of the index has a similarity field.
C16_HandlerReadOnly ==
    /\ handler = LoadAllData(files)
    /\ \A i \in 1..Len(IndexRecords(handler.index)) :
           ~HasSimilarity(IndexRecords(handler.index)[i])
    /\ (op.name = "search_by_name" /\ op.fuzzy
            /\ ~HasKey(handler.index, Lower(op.query))) =>
           \A i \in 1..Len(result.value) : HasSimilarity(result.value[i])

C16_Witness ==
    /\ op.name = "search_by_name"
    /\ op.fuzzy
    /\ op.query = s_gole
    /\ Len(result.value) >= 2
    /\ HasSimilarity(result.value[1])
    /\ handler.index = Get(files, s_index)

\* C17, under SearcherSpec: after any sequence of DataSearcher queries the
\* Name Index and the Flat Collection equal what was loaded, and an exact-name
\* lookup returns Records with no similarity field, as it did before any fuzzy
\* lookup.
C17_SearcherReadOnly ==
    /\ searcher = LoadData(files)
    /\ (op.name = "searcher.search_by_name"
            /\ HasKey(Get(files, s_index), Lower(op.query))) =>
           \A i \in 1..Len(result.value) : ~HasSimilarity(result.value[i])

(***************************************************************************)
(* The three source conventions, line by line, checked under BuildSpec.    *)
(***************************************************************************)
IsBlank(line) == Strip(line) = <<>>
HasText(lines) == \E i \in 1..Len(lines) : ~IsBlank(lines[i])

\* the blocks of a Delimiter-Block source: the lines between its rule lines
BlocksOf(content) == SelectSeq(Split(LinesOf(content), <<RuleLine>>), HasText)

\* the form identifier(args)
OpensAt(line, p) ==
    /\ line[p] = "("
    /\ \A q \in 1..(p - 1) : IsWord(line[q])
    /\ line[Len(line)] = ")"
HasCallForm(line) == \E p \in 2..(Len(line) - 1) : OpensAt(line, p)
OpenOf(line) == CHOOSE p \in 2..(Len(line) - 1) : OpensAt(line, p)

\* the trimmed text after the label, on the last line that starts with it
AfterLabel(lines, label) ==
    LET hits == {i \in 1..Len(lines) : StartsWith(Strip(lines[i]), label)}
    IN  IF hits = {} THEN <<>>
        ELSE Strip(From(Strip(lines[SetMax(hits)]), Len(label) + 1))

\* the Record of a block
BlockRecord(block) ==
    LET at == SetMin({i \in 1..Len(block) : ~IsBlank(block[i])})
        first == Strip(block[at])
        others == SubSeq(block, at + 1, Len(block))
        inner == SubSeq(first, OpenOf(first) + 1, Len(first) - 1)
    IN  [name |-> IF HasCallForm(first)
                  THEN SubSeq(first, 1, OpenOf(first) - 1) ELSE first,
         args |-> IF HasCallForm(first) /\ ~IsBlank(inner)
                  THEN SplitTrim(inner) ELSE <<>>,
         description |-> AfterLabel(others, l_Description),
         definition_type |-> AfterLabel(others, l_Definition_type),
         return_type |-> AfterLabel(others, l_Return_type),
         type |-> "data_type"]

\* C18: the Delimiter-Block parser yields one Record per non-empty block
\* between rule lines; a first line of the form identifier(args) gives the
\* identifier as name and the comma-split, trimmed arguments as args (none for
\* empty parentheses), any other first line is the name, with no args;
\* description, definition_type and return_type are the trimmed text after
\* their label on the lines that start with it, and other lines change nothing.
C18_DelimiterBlocks ==
    IsDataTypeCall =>
        result.value = [k \in 1..Len(BlocksOf(Source)) |->
                           BlockRecord(BlocksOf(Source)[k])]

\* a line of the form Tag: <name>, Categories: <list>: c is the place of the
\* comma that ends the name
TagEndsAt(l, c) ==
    /\ l[c] = ","
    /\ \A q \in (Len(s_Tag) + 1)..(c - 1) : l[q] # ","
    /\ StartsWith(LStrip(From(l, c + 1)), s_Categories)
IsTagLine(line) ==
    /\ StartsWith(Strip(line), s_Tag)
    /\ \E c \in (Len(s_Tag) + 2)..Len(Strip(line)) : TagEndsAt(Strip(line), c)

\* the list after Categories:, comma-split and trimmed, without the empty
\* entries and the entries All
CategoriesOf(line) ==
    LET l == Strip(line)
        c == CHOOSE k \in (Len(s_Tag) + 2)..Len(l) : TagEndsAt(l, k)
        list == SplitTrim(From(LStrip(From(l, c + 1)), Len(s_Categories) + 1))
        kept(x) == x # <<>> /\ x # s_All
    IN  SelectSeq(list, kept)

\* C19: the Line-Tag parser yields one Record of kind modifier for every line
\* of the form Tag: <name>, Categories: <list> and none for any other line;
\* its categories are the entries of the list, trimmed, in source order,
\* without the empty entries and the entries All.
C19_TagLines ==
    IsModifierCall =>
        LET tagged == SelectSeq(LinesOf(Source), IsTagLine)
        IN  /\ Len(result.value) = Len(tagged)
            /\ \A k \in 1..Len(tagged) :
                /\ result.value[k].type = "modifier"
                /\ result.value[k].categories = CategoriesOf(tagged[k])
                /\ ~InList(<<>>, result.value[k].categories)
                /\ ~InList(s_All, result.value[k].categories)

C19_Witness ==
    /\ IsModifierCall
    /\ Source = TextOf(<<t_banner, t_army_size, t_tax>>)
    /\ result.value = <<ModifierEntry(s_army_size, <<s_military>>),
                        ModifierEntry(d_tax, <<s_army>>)>>

\* the lines of the block of the k-th heading: those after it, up to the next
\* heading
BlockOfHeading(content, k) ==
    LET lines == LinesOf(content)
        at == {i \in 1..Len(lines) : IsHeading(lines[i])}
        start == CHOOSE i \in at : Cardinality({j \in at : j < i}) = k - 1
        later == {j \in at : j > start}
    IN  SubSeq(lines, start + 1,
               IF later = {} THEN Len(lines) ELSE SetMin(later) - 1)

\* a line of a block that belongs to the description
IsProse(line) ==
    /\ RStrip(line) # <<>>
    /\ ~StartsWith(line, l_Supported_Scopes)
    /\ ~StartsWith(line, l_Supported_Targets)

\* C20: the description of a Heading-Block Record is the newline-join, then
\* trimmed, of every non-empty line of its block that is not a Supported
\* Scopes or Supported Targets line, in source order; a line that begins with
\* bold markup but is not one of the two labels is kept.
C20_DescriptionKeepsLines ==
    (IsMarkdownCall /\ Len(result.value) = Len(Headings(Source))) =>
        \A k \in 1..Len(result.value) :
            LET prose == SelectSeq(BlockOfHeading(Source, k), IsProse)
            IN  result.value[k].description
                    = Strip(Join([i \in 1..Len(prose) |-> RStrip(prose[i])], NL))

(***************************************************************************)
(* Properties of one run of the Store Builder, checked under BuildSpec.    *)
(***************************************************************************)
IsBuild == op.name = "convert_all_data"

\* the Records of a category in a list of Records, as (name, category) pairs
OfCategory(records, c) ==
    LET in_c(r) == r.category = c
        found == SelectSeq(records, in_c)
    IN  [j \in 1..Len(found) |-> [name |-> found[j].name, category |-> found[j].category]]

\* the Records a source of a category holds, as (name, category) pairs
Tagged(entries, c) ==
    [j \in 1..Len(entries) |-> [name |-> entries[j].name, category |-> c]]

\* the same elements, each as many times, in whatever order
Occurrences(seq, x) == Cardinality({i \in 1..Len(seq) : seq[i] = x})
SameRecords(a, b) ==
    /\ Len(a) = Len(b)
    /\ \A i \in 1..Len(a) : Occurrences(a, a[i]) = Occurrences(b, a[i])

\* the number of Records the sources that exist hold
RECURSIVE CountLogs(_)
CountLogs(names) ==
    IF names = <<>> THEN 0
    ELSE (IF HasKey(files, Head(names) \o s_log)
          THEN Len(parse_log_file(Head(names), Get(files, Head(names) \o s_log)))
          ELSE 0) + CountLogs(Tail(names))

RECURSIVE CountTxt(_)
CountTxt(names) ==
    IF names = <<>> THEN 0
    ELSE Len(parse_data_type_file(Get(files, Head(names)))) + CountTxt(Tail(names))

\* C21: a log of the fixed list that does not exist raises nothing and is
\* skipped: the Flat Collection and the Name Index hold under its category
\* only what a data-type file of that stem holds, no file is written for it
\* otherwise, and the reported total counts the Records of the sources that
\* exist; every log that exists and holds a Record has its Records in the
\* Flat Collection and the Name Index and its own file, whether or not an
\* earlier log of the list is missing.
C21_MissingLogSkipped ==
    IsBuild =>
        LET all == Get(files, s_all_data)
            indexed == IndexRecords(Get(files, s_index))
            txt == ParsedTxt(files)
        IN  /\ result.raised = "none"
            /\ result.value = CountTxt(GlobTxt(files)) + CountLogs(log_files)
            /\ \A k \in 1..Len(log_files) :
                LET c == log_files[k]
                    parsed == parse_log_file(c, Get(files, c \o s_log))
                    kept == IF HasKey(txt, c) THEN Tagged(Get(txt, c), c) ELSE <<>>
                IN  IF HasKey(files, c \o s_log)
                    THEN parsed # <<>> =>
                            /\ OfCategory(all, c) = Tagged(parsed, c)
                            /\ SameRecords(OfCategory(indexed, c), Tagged(parsed, c))
                            /\ Get(files, c) = parsed
                    ELSE /\ OfCategory(all, c) = kept
                         /\ SameRecords(OfCategory(indexed, c), kept)
                         /\ HasKey(files, c) <=> HasKey(txt, c)

\* the first log of the list is missing, later logs exist and were processed
C21_Witness ==
    /\ IsBuild
    /\ ~HasKey(files, f_effects)
    /\ HasKey(files, f_triggers)
    /\ HasKey(files, f_modifiers)
    /\ HasKey(files, f_data_types_common)
    /\ result.value = 6
    /\ OfCategory(Get(files, s_all_data), s_effects) = <<>>
    /\ OfCategory(Get(files, s_all_data), s_triggers) # <<>>
    /\ OfCategory(Get(files, s_all_data), s_modifiers) # <<>>

(***************************************************************************)
(* Free-text search per kind of DataHandler, checked under Spec.           *)
(***************************************************************************)
IsKindSearch ==
    op.name \in {"search_modifiers", "search_effects", "search_triggers",
                 "search_event_targets"}

\* the loaded list the call searches
KindList ==
    CASE op.name = "search_modifiers" -> handler.modifiers
      [] op.name = "search_effects" -> handler.effects
      [] op.name = "search_triggers" -> handler.triggers
      [] op.name = "search_event_targets" -> handler.event_targets

\* the positions of the Records whose name or description contains the query,
\* letter case aside
Matching(list, query) ==
    {i \in 1..Len(list) :
        \/ Contains(Lower(Field(list[i], "name", <<>>)), Lower(query))
        \/ Contains(Lower(Field(list[i], "description", <<>>)), Lower(query))}

\* C22: for limit >= 0 a free-text search per kind returns exactly the first
\* limit Records, in the order of the loaded list, of the Records of that kind
\* whose name or description contains the query compared case-insensitively.
C22_FreeTextSearch ==
    (IsKindSearch /\ op.limit >= 0) =>
        LET matching == Matching(KindList, op.query)
            n == Min(op.limit, Cardinality(matching))
        IN  /\ Len(result.value) = n
            /\ \A k \in 1..n :
                \E i \in matching :
                    /\ Cardinality({j \in matching : j < i}) = k - 1
                    /\ result.value[k] = KindList[i]

\* a search that passes over the first Record of the list and returns the one
\* found by its description only
C22_Witness ==
    /\ op.name = "search_event_targets"
    /\ op.query = s_gol
    /\ op.limit = 1
    /\ Matching(handler.event_targets, s_gol) = {2}
    /\ result.value = <<handler.event_targets[2]>>
    /\ ~Contains(Lower(result.value[1].name), s_gol)
    /\ Contains(Lower(result.value[1].description), s_gol)

(***************************************************************************)
(* Statistics against search by kind, checked under ServerSpec.            *)
(***************************************************************************)
\* the count get_statistics reports for a kind
ReportedCount(statistics, kind) ==
    CASE kind = "effect" -> statistics.effects
      [] kind = "trigger" -> statistics.triggers
      [] kind = "modifier" -> statistics.modifiers
      [] kind = "event_target" -> statistics.event_targets

\* the Records get_data_by_type returns when the limit cuts nothing
AllOfKind(h, kind) == get_data_by_type(h, kind, Len(h.all_data))

\* C23: on a store written by the Store Builder and loaded by DataHandler, the
\* count get_statistics reports for each of the kinds effect, trigger, modifier
\* and event_target is the number of Records get_data_by_type returns for that
\* kind with an unbounded limit.
C23_StatisticsAgree ==
    (op.name = "get_statistics" /\ handler # None) =>
        \A kind \in {"effect", "trigger", "modifier", "event_target"} :
            ReportedCount(result.value, kind) = Len(AllOfKind(handler, kind))

(***************************************************************************)
(* The Flat Collection against the Name Index, checked under BuildSpec.    *)
(***************************************************************************)
\* what of a Record both structures hold
Identity(r) ==
    [name |-> r.name, category |-> r.category,
     description |-> r.description, type |-> r.type]

Identities(records) == [i \in 1..Len(records) |-> Identity(records[i])]

RECURSIVE SumOfLengths(_)
SumOfLengths(index) ==
    IF index = <<>> THEN 0 ELSE Len(Head(index).value) + SumOfLengths(Tail(index))

\* C24: after one run of convert_all_data every Record of all_data.json has
\* its one entry in the list index.json stores under its lowercased name, with
\* the same name and category, every entry of index.json stands under its own
\* lowercased name and is a Record of all_data.json, and the lengths of the
\* lists of index.json add up to the length of all_data.json; also when a
\* data-type file and a log have the same stem.
C24_SameRecords ==
    IsBuild =>
        LET all == Get(files, s_all_data)
            index == Get(files, s_index)
            flat == Identities(all)
        IN  /\ \A i, j \in 1..Len(index) : index[i].key = index[j].key => i = j
            /\ \A i \in 1..Len(index) :
                LET under == Identities(index[i].value)
                    named(r) == Lower(r.name) = index[i].key
                IN  /\ under # <<>>
                    /\ \A j \in 1..Len(under) : named(under[j])
                    /\ SameRecords(under, SelectSeq(flat, named))
            /\ \A k \in 1..Len(all) : HasKey(index, Lower(all[k].name))
            /\ SumOfLengths(index) = Len(all)

\* a data-type file and a log of the same stem were both built, and two other
\* sources hold a Record of the log's name
C24_Witness ==
    /\ IsBuild
    /\ HasKey(files, f_effects_txt)
    /\ HasKey(files, f_effects)
    /\ HasKey(files, f_triggers)
    /\ HasKey(files, f_data_types_common)
    /\ LET gold == Get(Get(files, s_index), s_gold)
       IN  [j \in 1..Len(gold) |-> gold[j].category]
               = <<s_data_types_common, s_effects, s_triggers>>
    /\ Len(Get(files, s_all_data)) = 4


====
